---- MODULE Spec2Model ----
(***************************************************************************)
(* Model of the Sleeper MCP server (class SleeperMCPServer).  One Node.js  *)
(* process, cooperative scheduling: a tool handler runs until its next     *)
(* await, so every action below is the synchronous stretch of code between *)
(* two awaits of one in-flight handler ("task").  Time is Date.now() in    *)
(* milliseconds.                                                           *)
(***************************************************************************)
EXTENDS Integers, Sequences, FiniteSets, TLC

\* ---------------------------------------------------------------- bounds
NTasks == 2          \* handlers that may be in flight at once
MaxTicks == 2        \* clock advances explored
Boot == 1000000      \* Date.now() at process start (any value >= CACHE_DURATION)
MaxWeek == 2         \* NFL weeks explored
MaxSleeps == 6       \* rateLimit() timers that fire while tools are served
MaxSide == 2         \* players one side of a trade gives

\* ------------------------------------------------------ program constants
requestDelay == 100
CACHE_DURATION == 5 * 60 * 1000

Tasks == 1..NTasks
Leagues == {"L1", "L2", "your_league_id_1"}
Weeks == 1..MaxWeek
Catalog == {"p1", "p2", "p3", "p4"}   \* ids in the upstream player catalog
Builds == {"index.ts", "part_001"}

VARIABLES
  now,               \* Date.now()
  ticks,             \* number of clock advances so far
  build,             \* which of the two source revisions is running
  nflWeek,           \* week the upstream /state/nfl endpoint reports
  upRows,            \* rows (with player_id and stats) of a projections response
  upBye,             \* upstream matchups hold no opposing entry for the account
  upStats,           \* proj.stats of the projections row of player p1
  upWeights,         \* scoring_settings of the upstream league
  lastRequestTime,   \* this.lastRequestTime
  currentWeek,       \* this.currentWeek (0 = undefined)
  currentWeekCache,  \* this.currentWeekCache
  playersCache,      \* keys of this.playersCache
  users,             \* this.users
  task,              \* in-flight handlers: position and locals
  lastGap,           \* time between the two latest rateLimit() returns
  lastPreview        \* what the last completed active-week preview used

envVars == <<build, nflWeek, upRows, upBye, upStats, upWeights>>
clock == <<now, ticks>>
vars == <<now, ticks, build, nflWeek, upRows, upBye, upStats, upWeights,
          lastRequestTime, currentWeek,
          currentWeekCache, playersCache, users, task, lastGap,
          lastPreview>>

\* --------------------------------------------------------------- strings
\* A string is a sequence of symbols; a symbol is one character, or a chunk
\* of characters that the program only ever compares as a whole.
Upper == ("D" :> "d") @@ ("Y" :> "y") @@ ("R" :> "r") @@ ("L2" :> "l2")

\* String.prototype.toLowerCase
toLowerCase(s) ==
  [i \in 1..Len(s) |-> IF s[i] \in DOMAIN Upper THEN Upper[s[i]] ELSE s[i]]

\* String.prototype.includes
includes(s, sub) ==
  \E i \in 0..(Len(s) - Len(sub)) : SubSeq(s, i + 1, i + Len(sub)) = sub

\* ---------------------------------------------------------- configuration
PLACEHOLDER_USERNAME == <<"your_sleeper_username">>
PLACEHOLDER_LEAGUE == "your_league_id_1"

League(id) == [leagueId |-> id, leagueName |-> <<>>, rosterId |-> ""]
User(name, ids) ==
  [username |-> name, userId |-> "",
   leagues |-> [i \in 1..Len(ids) |-> League(ids[i])]]

al == <<"a", "l">>
bo == <<"b", "o">>

\* what parseEnvironmentConfig() can leave in this.users
Configs ==
  { <<>>,
    <<User(PLACEHOLDER_USERNAME, <<PLACEHOLDER_LEAGUE>>)>>,
    <<User(al, <<PLACEHOLDER_LEAGUE>>)>>,
    <<User(al, <<"L1">>)>>,
    <<User(al, <<"L1", "L2">>)>>,
    <<User(al, <<"L1">>), User(bo, <<"L2">>)>>,
    <<User(bo, <<"L2">>), User(al, <<"L1">>)>> }

\* the display name upstream has for a league (<<>>: the league is unknown)
UpName(id) ==
  CASE id = "L1" -> <<"D", "y", "n">>
    [] id = "L2" -> <<"R", "e", "d">>
    [] OTHER -> <<>>

\* the user id upstream has for a username ("": /user/<name> answers null)
UpUserId(username) ==
  CASE username = al -> "U1"
    [] username = bo -> "U3"
    [] OTHER -> ""

\* the rosters and the members upstream has for a league, in the order of
\* the response.  In L1 the member displayed as "al" is user U2, another
\* user id than the one of username al; in L2 both U1 and U2 own a roster.
UpRosters(id) ==
  CASE id = "L1" -> <<[roster_id |-> "7", owner_id |-> "U2"]>>
    [] id = "L2" -> <<[roster_id |-> "3", owner_id |-> "U1"],
                      [roster_id |-> "4", owner_id |-> "U2"]>>
    [] OTHER -> <<>>
UpMembers(id) ==
  CASE id = "L1" -> <<[display_name |-> al, user_id |-> "U2"]>>
    [] id = "L2" -> <<[display_name |-> <<"A">>, user_id |-> "U1"],
                      [display_name |-> al, user_id |-> "U2"]>>
    [] OTHER -> <<>>

\* the league exists upstream (otherwise its endpoints answer null)
UpLeague(id) == UpName(id) # <<>>

\* league hints of the "my ..." tools (<<>>: omitted)
Hints == { <<>>, al, <<"r", "e", "d">>, <<"D", "Y">>, <<"z">>, <<"L2">> }

\* ---------------------------------------------------------------- values
NoVal == [week |-> 0, at |-> -1, rows |-> 0]     \* undefined

EmptyCache ==
  [matchups        |-> [l \in Leagues |-> NoVal],
   rosters         |-> [l \in Leagues |-> NoVal],
   projections     |-> {},
   bulkProjections |-> [k \in Weeks \X Leagues |-> NoVal],
   timestamp       |-> 0]

\* 0 / 0; a percentage is kept as the fraction num / den
NaN == [num |-> 0, den |-> 0]
NoAdvice == [verdict |-> "", team |-> 0]

NoPrev == [league |-> "", week |-> 0, at |-> -1, matchups |-> NoVal,
           rosters |-> NoVal, bulk |-> NoVal]

Idle ==
  [op |-> "idle", pc |-> "idle", lpRet |-> "", rlRet |-> "",
   wakeAt |-> 0, token |-> FALSE, calls |-> 0, outcome |-> "",
   league |-> "", week |-> 0, isCurrentWeek |-> FALSE, branch |-> "",
   matchups |-> NoVal, rosters |-> NoVal, bulk |-> NoVal, bulkSrc |-> "",
   hitAge |-> -1, bulkAge |-> -1, wrote |-> FALSE, stored |-> FALSE,
   failed |-> "", startedAt |-> 0, reqs |-> <<>>,
   lpFailed |-> FALSE, lookup |-> "",
   hint |-> <<>>, phase |-> 0, ui |-> 0, li |-> 0, selU |-> 0, selL |-> 0,
   fulRet |-> "", roster |-> "", hadRoster |-> FALSE, seqs |-> 0,
   erCalls |-> 0, nameCalls |-> 0, nameFailed |-> {}, userFailed |-> {},
   result |-> "",
   opponent |-> "", message |-> "", reply |-> "", upto |-> 0,
   projected |-> <<>>, playersFrom1 |-> <<>>, playersFrom2 |-> <<>>,
   team1Value |-> 0, team2Value |-> 0, percentDiff |-> NaN,
   recommendation |-> NoAdvice,
   position |-> "", limit |-> 0, topCandidates |-> <<>>, next |-> 0,
   asked |-> <<>>, recommendations |-> <<>>]

\* the requests of one fan-out, each with whether a completed rateLimit() of
\* this handler precedes it: only the first can use up the pass
Requests(r, eps) ==
  [i \in 1..Len(eps) |-> [ep |-> eps[i], paced |-> (i = 1 /\ r.token)]]

\* fetch(...) for every endpoint of eps, in one synchronous stretch
Issue(r, eps) ==
  [r EXCEPT !.reqs = Requests(r, eps), !.token = FALSE, !.calls = @ + Len(eps)]

Upd(t, r) == task' = [task EXCEPT ![t] = r]

\* ------------------------------------------------------------------ clock
Tick(d) ==
  /\ ticks < MaxTicks
  /\ now' = now + d
  /\ ticks' = ticks + 1
  /\ UNCHANGED <<envVars, lastRequestTime, currentWeek, currentWeekCache,
                 playersCache, users, task, lastGap, lastPreview>>

\* ------------------------------------------------------------- rateLimit
\* lastRequestTime is the time of the previous return (0: there was none)
\* (gaps of requestDelay or more are recorded as requestDelay)
Returned ==
  lastGap' = IF lastRequestTime = 0 THEN -1
             ELSE IF now - lastRequestTime >= requestDelay THEN requestDelay
             ELSE now - lastRequestTime

\* if (timeSinceLastRequest < this.requestDelay)
mustSleep(timeSinceLastRequest) == timeSinceLastRequest < requestDelay

\* rateLimit(): read the clock, sleep for the remainder, stamp the clock
RateLimitEnter(t) ==
  /\ task[t].pc = "rl"
  /\ LET timeSinceLastRequest == now - lastRequestTime IN
     IF mustSleep(timeSinceLastRequest)
     THEN /\ Upd(t, [task[t] EXCEPT !.pc = "rl_sleep",
                       !.wakeAt = now + (requestDelay - timeSinceLastRequest)])
          /\ UNCHANGED <<lastRequestTime, lastGap>>
     ELSE /\ lastRequestTime' = now
          /\ Returned
          /\ Upd(t, [task[t] EXCEPT !.pc = task[t].rlRet, !.token = TRUE])
  /\ UNCHANGED <<clock, envVars, currentWeek, currentWeekCache, playersCache,
                 users, lastPreview>>

\* the setTimeout fires: lastRequestTime = Date.now()
RateLimitWake(t) ==
  /\ task[t].pc = "rl_sleep"
  /\ now >= task[t].wakeAt
  /\ lastRequestTime' = now
  /\ Returned
  /\ Upd(t, [task[t] EXCEPT !.pc = task[t].rlRet, !.token = TRUE, !.wakeAt = 0])
  /\ UNCHANGED <<clock, envVars, currentWeek, currentWeekCache, playersCache,
                 users, lastPreview>>

\* ------------------------------------------------------ loadPlayersCache
\* faulty variant: the catalog is requested on every call
mustLoadPlayersAlways == TRUE

\* if (this.playersCache.size === 0)
mustLoadPlayers == playersCache = {}

LoadPlayersCacheEnter(t) ==
  /\ task[t].pc = "lp"
  /\ IF mustLoadPlayers
     THEN Upd(t, [Issue(task[t], <<"players">>) EXCEPT !.pc = "lp_await"])
     ELSE Upd(t, [task[t] EXCEPT !.pc = task[t].lpRet])
  /\ UNCHANGED <<clock, envVars, lastRequestTime, currentWeek,
                 currentWeekCache, playersCache, users, lastGap, lastPreview>>

\* the catalog response is copied into the map; a failure is only logged
LoadPlayersCacheResolve(t, ok) ==
  /\ task[t].pc = "lp_await"
  /\ playersCache' = IF ok THEN playersCache \cup Catalog ELSE playersCache
  /\ Upd(t, [task[t] EXCEPT !.pc = task[t].lpRet, !.lpFailed = ~ok])
  /\ UNCHANGED <<clock, envVars, lastRequestTime, currentWeek,
                 currentWeekCache, users, lastGap, lastPreview>>

\* ---------------------------------------------------------------- getUser
StartGetUser(t) ==
  /\ task[t].pc = "idle"
  /\ Upd(t, [Issue([Idle EXCEPT !.op = "getUser"], <<"user">>)
               EXCEPT !.pc = "gu_await"])
  /\ UNCHANGED <<clock, envVars, lastRequestTime, currentWeek,
                 currentWeekCache, playersCache, users, lastGap, lastPreview>>

GetUserResolve(t, ok) ==
  /\ task[t].pc = "gu_await"
  /\ Upd(t, [task[t] EXCEPT !.pc = "done",
               !.outcome = IF ok THEN "ok" ELSE "error"])
  /\ UNCHANGED <<clock, envVars, lastRequestTime, currentWeek,
                 currentWeekCache, playersCache, users, lastGap, lastPreview>>

\* ------------------------------------------------------- getPlayerDetails
StartGetPlayerDetails(t) ==
  /\ task[t].pc = "idle"
  /\ Upd(t, [Idle EXCEPT !.op = "getPlayerDetails", !.pc = "lp",
               !.lpRet = "gpd_map"])
  /\ UNCHANGED <<clock, envVars, lastRequestTime, currentWeek,
                 currentWeekCache, playersCache, users, lastGap, lastPreview>>

\* playerIds.map(id => player ? {[id]: player} : {[id]: null}), ids of Catalog
GetPlayerDetailsMap(t) ==
  /\ task[t].pc = "gpd_map"
  /\ Upd(t, [task[t] EXCEPT !.pc = "done", !.outcome = "ok",
               !.lookup = IF playersCache = {} THEN "null" ELSE "player"])
  /\ UNCHANGED <<clock, envVars, lastRequestTime, currentWeek,
                 currentWeekCache, playersCache, users, lastGap, lastPreview>>

\* ----------------------------------------------------------- analyzeTrade
\* the upstream catalog: position and injury_status of each player
position(id) ==
  CASE id = "p1" -> "QB"
    [] id = "p4" -> "WR"
    [] OTHER -> "K"
injury_status(id) == id = "p3"

\* getPlayerValue; value *= 0.7 is exact on these values
getPlayerValue(playerId) ==
  IF playerId \notin playersCache THEN 0
  ELSE LET value == CASE position(playerId) = "QB" -> 100
                      [] position(playerId) = "RB" -> 80
                      [] position(playerId) = "WR" -> 70
                      [] position(playerId) = "TE" -> 60
                      [] OTHER -> 50
       IN IF injury_status(playerId) THEN (value * 7) \div 10 ELSE value

\* players.reduce((sum, id) => sum + getPlayerValue(id), 0)
RECURSIVE reduce(_)
reduce(players) ==
  IF players = <<>> THEN 0
  ELSE getPlayerValue(Head(players)) + reduce(Tail(players))

abs(x) == IF x < 0 THEN -x ELSE x
max(x, y) == IF x > y THEN x ELSE y

\* (valueDiff / Math.max(team1Value, team2Value)) * 100
percentDiffOf(team1Value, team2Value) ==
  [num |-> 100 * abs(team1Value - team2Value),
   den |-> max(team1Value, team2Value)]

\* percentDiff > k; false for NaN
exceeds(percentDiff, k) ==
  percentDiff.den > 0 /\ percentDiff.num > k * percentDiff.den

\* faulty variant: the thresholds themselves count as an advantage
recommendationInclusive(team1Value, team2Value) ==
  LET percentDiff == percentDiffOf(team1Value, team2Value)
      winner == IF team1Value > team2Value THEN 1 ELSE 2
  IN IF percentDiff.den > 0 /\ percentDiff.num >= 30 * percentDiff.den
     THEN [verdict |-> "wins significantly", team |-> winner]
     ELSE IF percentDiff.den > 0 /\ percentDiff.num >= 15 * percentDiff.den
     THEN [verdict |-> "has slight advantage", team |-> winner]
     ELSE [verdict |-> "Fair trade", team |-> 0]

\* let recommendation = "Fair trade"; if (percentDiff > 30) ... else if (> 15)
recommendationOf(team1Value, team2Value) ==
  LET percentDiff == percentDiffOf(team1Value, team2Value)
      winner == IF team1Value > team2Value THEN 1 ELSE 2
  IN IF exceeds(percentDiff, 30)
     THEN [verdict |-> "wins significantly", team |-> winner]
     ELSE IF exceeds(percentDiff, 15)
     THEN [verdict |-> "has slight advantage", team |-> winner]
     ELSE [verdict |-> "Fair trade", team |-> 0]

StartAnalyzeTrade(t, playersFrom1, playersFrom2) ==
  /\ task[t].pc = "idle"
  /\ Upd(t, [Idle EXCEPT !.op = "analyzeTrade", !.pc = "lp",
               !.lpRet = "at_fan", !.playersFrom1 = playersFrom1,
               !.playersFrom2 = playersFrom2])
  /\ UNCHANGED <<clock, envVars, lastRequestTime, currentWeek,
                 currentWeekCache, playersCache, users, lastGap, lastPreview>>

\* Promise.all([league, rosters, users])
AnalyzeTradeFanOut(t) ==
  /\ task[t].pc = "at_fan"
  /\ Upd(t, [Issue(task[t], <<"league", "rosters", "users">>)
               EXCEPT !.pc = "at_await"])
  /\ UNCHANGED <<clock, envVars, lastRequestTime, currentWeek,
                 currentWeekCache, playersCache, users, lastGap, lastPreview>>

\* the three responses arrive (or one rejects, or a roster id is unknown);
\* the values, the percentage and the recommendation
AnalyzeTradeResolve(t, ok) ==
  /\ task[t].pc = "at_await"
  /\ LET r == task[t]
         team1Value == reduce(r.playersFrom1)
         team2Value == reduce(r.playersFrom2)
     IN Upd(t, IF ok
               THEN [r EXCEPT !.pc = "done", !.outcome = "ok",
                       !.team1Value = team1Value,
                       !.team2Value = team2Value,
                       !.percentDiff = percentDiffOf(team1Value, team2Value),
                       !.recommendation =
                          recommendationOf(team1Value, team2Value)]
               ELSE [r EXCEPT !.pc = "done", !.outcome = "error"])
  /\ UNCHANGED <<clock, envVars, lastRequestTime, currentWeek,
                 currentWeekCache, playersCache, users, lastGap, lastPreview>>

\* ------------------------------------------------------------ week cache
isCacheValid == now - currentWeekCache.timestamp < CACHE_DURATION

\* faulty variant: the rosters map is left out of the clearing
clearOldCacheMatchups(c) ==
  IF ~isCacheValid
  THEN [c EXCEPT !.matchups = [l \in Leagues |-> NoVal],
                 !.projections = {},
                 !.bulkProjections = [k \in Weeks \X Leagues |-> NoVal]]
  ELSE c

\* clearOldCache(): the four maps are emptied, the timestamp is left alone
clearOldCache(c) ==
  IF ~isCacheValid
  THEN [c EXCEPT !.matchups = [l \in Leagues |-> NoVal],
                 !.rosters = [l \in Leagues |-> NoVal],
                 !.projections = {},
                 !.bulkProjections = [k \in Weeks \X Leagues |-> NoVal]]
  ELSE c

\* const isCurrentWeek = week === this.currentWeek
isCurrentWeekOf(week) == week = currentWeek

\* faulty variant: the validity test is dropped
useCacheNoTtl(isCur) == isCur

\* if (isCurrentWeek && this.isCacheValid())
useCache(isCur) == isCur /\ isCacheValid

\* if (cachedMatchups && cachedRosters)
cacheHit(l) ==
  /\ currentWeekCache.matchups[l] # NoVal
  /\ currentWeekCache.rosters[l] # NoVal

\* if (isCurrentWeek && this.currentWeekCache.bulkProjections.has(cacheKey))
bulkCached(isCur, key) == isCur /\ currentWeekCache.bulkProjections[key] # NoVal

\* faulty variant: bulk projections are cached for any week
cacheBulkAnyWeek(isCur) == TRUE

\* if (isCurrentWeek) { bulkProjections.set(cacheKey, ...); timestamp = ... }
cacheBulk(isCur) == isCur

\* faulty variant: the cache is written before the join-all has settled
storeJoinEarly(branch, ok) == branch = "miss"

\* the cache is written after the awaited join-all: a rejection skips it
storeJoin(branch, ok) == ok /\ branch = "miss"

\* the response of an upstream endpoint for one week, received now
Fresh(week, rows) == [week |-> week, at |-> now, rows |-> rows]

\* ------------------------------------------------------------ getNFLState
StartGetNFLState(t) ==
  /\ task[t].pc = "idle"
  /\ Upd(t, [Issue([Idle EXCEPT !.op = "getNFLState"], <<"state">>)
               EXCEPT !.pc = "ns_await", !.startedAt = now])
  /\ UNCHANGED <<clock, envVars, lastRequestTime, currentWeek,
                 currentWeekCache, playersCache, users, lastGap, lastPreview>>

GetNFLStateResolve(t, ok) ==
  /\ task[t].pc = "ns_await"
  /\ IF ok
     THEN /\ currentWeek' = nflWeek
          /\ currentWeekCache' = clearOldCache(currentWeekCache)
          /\ Upd(t, [task[t] EXCEPT !.pc = "done", !.outcome = "ok",
                       !.wrote = (clearOldCache(currentWeekCache) # currentWeekCache)])
     ELSE /\ Upd(t, [task[t] EXCEPT !.pc = "done", !.outcome = "error",
                       !.failed = "state"])
          /\ UNCHANGED <<currentWeek, currentWeekCache>>
  /\ UNCHANGED <<clock, envVars, lastRequestTime, playersCache, users,
                 lastGap, lastPreview>>

\* the upstream season moves on to the next week
WeekRollover ==
  /\ nflWeek < MaxWeek
  /\ nflWeek' = nflWeek + 1
  /\ UNCHANGED <<clock, build, upRows, upBye, upStats, upWeights,
                 lastRequestTime, currentWeek,
                 currentWeekCache, playersCache, users, task, lastGap,
                 lastPreview>>

\* ---------------------------------------------------------- previewMatchup
\* previewMatchup(leagueId, week, rosterId) is entered
previewCall(leagueId, week) ==
  [Idle EXCEPT !.op = "previewMatchup", !.pc = "lp", !.lpRet = "pm_check",
               !.league = leagueId, !.week = week, !.startedAt = now]

StartPreviewMatchup(t, leagueId, week) ==
  /\ task[t].pc = "idle"
  /\ Upd(t, previewCall(leagueId, week))
  /\ UNCHANGED <<clock, envVars, lastRequestTime, currentWeek,
                 currentWeekCache, playersCache, users, lastGap, lastPreview>>

\* after loadPlayersCache(): choose between the cache and a live join-all
PreviewMatchupCheck(t) ==
  /\ task[t].pc = "pm_check"
  /\ LET r == task[t]
         isCur == isCurrentWeekOf(r.week)
         hit == useCache(isCur) /\ cacheHit(r.league)
         eps == IF hit THEN <<"users", "league">>
                ELSE <<"matchups", "rosters", "users", "league">>
     IN Upd(t, [Issue(r, eps) EXCEPT
             !.pc = "pm_await", !.isCurrentWeek = isCur,
             !.branch = IF hit THEN "hit"
                        ELSE IF useCache(isCur) THEN "miss" ELSE "bypass",
             !.matchups = IF hit THEN currentWeekCache.matchups[r.league] ELSE NoVal,
             !.rosters = IF hit THEN currentWeekCache.rosters[r.league] ELSE NoVal,
             !.hitAge = IF hit THEN now - currentWeekCache.timestamp ELSE -1])
  /\ UNCHANGED <<clock, envVars, lastRequestTime, currentWeek,
                 currentWeekCache, playersCache, users, lastGap, lastPreview>>

\* ----------------------------------------------- projected fantasy points
\* Numbers are kept in tenths of a point: a weight of 0.1 is 1, of 1 is 10,
\* and a pts_* field of 9.0 is 90; raw stats are whole counts.  A stats or
\* scoring_settings object is a function on the keys it has.

\* the categories of the scoring loop, in the order of the code
Categories ==
  <<"pass_yd", "pass_td", "pass_int", "pass_2pt", "rush_yd", "rush_td",
    "rush_2pt", "rec", "rec_yd", "rec_td", "rec_2pt", "fum_lost", "fum",
    "fum_rec", "fum_rec_td">>

\* obj[key] of JavaScript, undefined read as 0 where only truthiness or
\* `|| 0` is applied to it
get(obj, key) == IF key \in DOMAIN obj THEN obj[key] ELSE 0

\* if (stats.c && scoringSettings.c) points += stats.c * scoringSettings.c
RECURSIVE accumulate(_, _, _)
accumulate(stats, scoringSettings, i) ==
  IF i = 0 THEN 0
  ELSE LET c == Categories[i]
           term == IF get(stats, c) # 0 /\ get(scoringSettings, c) # 0
                   THEN get(stats, c) * get(scoringSettings, c)
                   ELSE 0
       IN accumulate(stats, scoringSettings, i - 1) + term

\* the body of the projection loop for one row
projectedPoints(stats, scoringSettings) ==
  LET points == accumulate(stats, scoringSettings, Len(Categories))
  IN IF points = 0
     THEN IF get(scoringSettings, "rec") = 10
          THEN get(stats, "pts_ppr")
          ELSE IF get(scoringSettings, "rec") = 5
          THEN get(stats, "pts_half_ppr")
          ELSE get(stats, "pts_std")
     ELSE points

\* projectionMap.get(playerId) || 0, for the player of the only row
getPlayerProjection(rows) ==
  IF rows > 0 THEN projectedPoints(upStats, upWeights) ELSE 0

\* upstream rows and leagues explored
PprRow == [rec |-> 5, rec_yd |-> 80, pts_ppr |-> 130, pts_half_ppr |-> 105,
           pts_std |-> 80]
PprLeague == [rec |-> 10, rec_yd |-> 1]

StatRows ==
  { PprRow,
    [pts_ppr |-> 90],
    [pts_ppr |-> 90, pts_half_ppr |-> 70, pts_std |-> 50],
    [rush_yd |-> 20, fum_lost |-> 1, pts_ppr |-> 3, pts_half_ppr |-> 2,
     pts_std |-> 1],
    [rec |-> 0, xpm |-> 3, pts_std |-> 30],
    [pass_yd |-> 250, pass_td |-> 2, pass_int |-> 1] }

LeagueWeights ==
  { PprLeague,
    [rec |-> 10],
    [rec |-> 5, rush_yd |-> 1, fum_lost |-> -20],
    [rec |-> 0, rec_yd |-> 1],
    [rush_yd |-> 1, fum_lost |-> -20],
    [pass_yd |-> 0, pass_td |-> 40, pass_int |-> -10, rec |-> 10] }

\* the projection loop that follows fetchBulkProjections(), and the return
BuildProjections(r, c) ==
  IF r.bulk.rows > 0 /\ build = "part_001"
  THEN \* leagueInfo.data.scoring_settings: leagueInfo.data is undefined
       [task |-> [r EXCEPT !.pc = "done", !.outcome = "error",
                           !.failed = "scoring"],
        cache |-> c]
  ELSE \* opponent: opponentUser ? {...} : null
       [task |-> [r EXCEPT !.pc = "done", !.outcome = "ok",
                           !.result = "preview",
                           !.opponent = IF upBye THEN "null" ELSE "team",
                           !.projected = <<getPlayerProjection(r.bulk.rows)>>,
                           !.wrote = @ \/ (r.isCurrentWeek /\ r.bulk.rows > 0)],
        cache |-> IF r.isCurrentWeek /\ r.bulk.rows > 0
                  THEN [c EXCEPT !.projections = @ \cup {"p1"}]
                  ELSE c]

Remember(r) ==
  IF r.outcome = "ok" /\ r.isCurrentWeek
  THEN [league |-> r.league, week |-> r.week, at |-> now,
        matchups |-> r.matchups, rosters |-> r.rosters, bulk |-> r.bulk]
  ELSE lastPreview

\* the join-all settles; on success the code runs on into fetchBulkProjections
PreviewMatchupJoin(t, ok, found) ==
  /\ task[t].pc = "pm_await"
  /\ LET r == task[t]
         key == <<r.week, r.league>>
         live == r.branch # "hit"
         store == storeJoin(r.branch, ok)
         r1 == [r EXCEPT
                 !.matchups = IF live /\ ok THEN Fresh(r.week, 0) ELSE @,
                 !.rosters = IF live /\ ok THEN Fresh(0, 0) ELSE @,
                 !.stored = store, !.wrote = store]
         c1 == IF store
               THEN [currentWeekCache EXCEPT
                       !.matchups[r.league] = Fresh(r.week, 0),
                       !.rosters[r.league] = Fresh(0, 0),
                       !.timestamp = now]
               ELSE currentWeekCache
     IN IF ~ok
        THEN /\ Upd(t, [r1 EXCEPT !.pc = "done", !.outcome = "error",
                          !.failed = "join"])
             /\ currentWeekCache' = c1
             /\ UNCHANGED lastPreview
        ELSE IF ~found
        THEN \* throw new Error("Matchup not found")
             /\ Upd(t, [r1 EXCEPT !.pc = "done", !.outcome = "error",
                          !.failed = "notfound"])
             /\ currentWeekCache' = c1
             /\ UNCHANGED lastPreview
        ELSE IF bulkCached(r.isCurrentWeek, key)
        THEN LET r2 == [r1 EXCEPT !.bulk = currentWeekCache.bulkProjections[key],
                                  !.bulkSrc = "cache",
                                  !.bulkAge = now - c1.timestamp]
                 b == BuildProjections(r2, c1)
             IN /\ Upd(t, b.task)
                /\ currentWeekCache' = b.cache
                /\ lastPreview' = Remember(b.task)
        ELSE /\ Upd(t, [r1 EXCEPT !.pc = "rl", !.rlRet = "pm_bulk"])
             /\ currentWeekCache' = c1
             /\ UNCHANGED lastPreview
  /\ UNCHANGED <<clock, envVars, lastRequestTime, currentWeek, playersCache,
                 users, lastGap>>

\* fetchBulkProjections, after its rateLimit(): the projections request
PreviewMatchupBulkFetch(t) ==
  /\ task[t].pc = "pm_bulk"
  /\ Upd(t, [Issue(task[t], <<"projections">>) EXCEPT !.pc = "pm_bulk_await"])
  /\ UNCHANGED <<clock, envVars, lastRequestTime, currentWeek,
                 currentWeekCache, playersCache, users, lastGap, lastPreview>>

\* the projections response, or its failure, which the catch swallows
PreviewMatchupBulkResolve(t, ok) ==
  /\ task[t].pc = "pm_bulk_await"
  /\ LET r == task[t]
         key == <<r.week, r.league>>
         keep == ok /\ cacheBulk(r.isCurrentWeek)
         r1 == [r EXCEPT !.bulk = IF ok THEN Fresh(r.week, upRows) ELSE NoVal,
                         !.bulkSrc = IF ok THEN "live" ELSE "none",
                         !.failed = IF ok THEN @ ELSE "bulk",
                         !.wrote = @ \/ keep]
         c1 == IF keep
               THEN [currentWeekCache EXCEPT
                       !.bulkProjections[key] = r1.bulk,
                       !.timestamp = now]
               ELSE currentWeekCache
         b == BuildProjections(r1, c1)
     IN /\ Upd(t, b.task)
        /\ currentWeekCache' = b.cache
        /\ lastPreview' = Remember(b.task)
  /\ UNCHANGED <<clock, envVars, lastRequestTime, currentWeek, playersCache,
                 users, lastGap>>

\* ------------------------------------------------------ findUserAndLeague
\* every variable but task and users
frame == <<clock, envVars, lastRequestTime, currentWeek, currentWeekCache,
           playersCache, lastGap, lastPreview>>

\* user.username.toLowerCase().includes(hintLower) ||
\* hintLower.includes(user.username.toLowerCase())
userMatches(username, hintLower) ==
  \/ includes(toLowerCase(username), hintLower)
  \/ includes(hintLower, toLowerCase(username))

\* league.leagueName?.toLowerCase().includes(hintLower) ||
\* hintLower.includes(league.leagueName?.toLowerCase() || '')
nameMatches(leagueName, hintLower) ==
  \/ includes(toLowerCase(leagueName), hintLower)
  \/ includes(hintLower, toLowerCase(leagueName))

\* the test of the second loop: ... || league.leagueId === hint
leagueMatches(phase, league, hint) ==
  \/ nameMatches(league.leagueName, toLowerCase(hint))
  \/ phase = 2 /\ <<league.leagueId>> = hint

Stop(kind, phase, u, l) == [kind |-> kind, phase |-> phase, u |-> u, l |-> l]

\* The two loops, run from a position up to the next await: the fetch of an
\* unknown league name, or the ensureRosterId() of the binding chosen.
\* Position (1, u, 0) is the username test of user u, (phase, u, l) is
\* league l of user u.
RECURSIVE scan(_, _, _, _, _)
scan(us, hint, phase, u, l) ==
  IF phase = 1
  THEN IF u > Len(us) THEN scan(us, hint, 2, 1, 1)
       ELSE IF l = 0
       THEN IF userMatches(us[u].username, toLowerCase(hint))
            THEN IF Len(us[u].leagues) = 1 THEN Stop("ensure", 1, u, 1)
                 ELSE scan(us, hint, 1, u, 1)
            ELSE scan(us, hint, 1, u + 1, 0)
       ELSE IF l > Len(us[u].leagues) THEN scan(us, hint, 1, u + 1, 0)
       ELSE IF us[u].leagues[l].leagueName = <<>> THEN Stop("name", 1, u, l)
       ELSE IF leagueMatches(1, us[u].leagues[l], hint)
       THEN Stop("ensure", 1, u, l)
       ELSE scan(us, hint, 1, u, l + 1)
  ELSE IF u > Len(us) THEN Stop("default", 2, 1, 1)
       ELSE IF l > Len(us[u].leagues) THEN scan(us, hint, 2, u + 1, 1)
       ELSE IF us[u].leagues[l].leagueName = <<>> THEN Stop("name", 2, u, l)
       ELSE IF leagueMatches(2, us[u].leagues[l], hint)
       THEN Stop("ensure", 2, u, l)
       ELSE scan(us, hint, 2, u, l + 1)

\* after the try/catch around the league-name fetch: the test of that league
afterName(us, hint, phase, u, l) ==
  IF leagueMatches(phase, us[u].leagues[l], hint)
  THEN Stop("ensure", phase, u, l)
  ELSE scan(us, hint, phase, u, l + 1)

\* the handler moves on to where the loops stopped; the name fetch of the
\* first loop is behind rateLimit(), that of the second loop is not
go(r, st) ==
  LET r1 == [r EXCEPT !.phase = st.phase, !.ui = st.u, !.li = st.l] IN
  IF st.kind = "name"
  THEN IF st.phase = 1
       THEN [r1 EXCEPT !.pc = "rl", !.rlRet = "ful_name"]
       ELSE [Issue(r1, <<"league">>) EXCEPT !.pc = "ful_name_await",
                                            !.nameCalls = @ + 1]
  ELSE [r1 EXCEPT !.selU = st.u, !.selL = st.l, !.pc = "er"]

\* faulty variant: the resolution is tried again until a roster is found
fulReturnRetry(r, us) ==
  [r EXCEPT !.pc = IF us[r.selU].leagues[r.selL].rosterId = "" THEN "er"
                   ELSE r.fulRet,
            !.league = us[r.selU].leagues[r.selL].leagueId,
            !.roster = us[r.selU].leagues[r.selL].rosterId]

\* return { user, league, rosterId: league.rosterId }
fulReturn(r, us) ==
  [r EXCEPT !.pc = r.fulRet,
            !.league = us[r.selU].leagues[r.selL].leagueId,
            !.roster = us[r.selU].leagues[r.selL].rosterId]

FindUserAndLeagueEnter(t) ==
  /\ task[t].pc = "ful"
  /\ LET r == task[t] IN
     IF Len(users) = 0 \/ Len(users[1].leagues) = 0
     THEN Upd(t, [r EXCEPT !.pc = r.fulRet, !.selU = 0, !.selL = 0])
     ELSE IF r.hint = <<>> /\ Len(users) = 1 /\ Len(users[1].leagues) = 1
     THEN Upd(t, go(r, Stop("ensure", 0, 1, 1)))
     ELSE IF r.hint # <<>>
     THEN Upd(t, go(r, scan(users, r.hint, 1, 1, 0)))
     ELSE Upd(t, go(r, Stop("default", 0, 1, 1)))
  /\ UNCHANGED <<frame, users>>

\* first loop, after rateLimit(): fetch(`/league/${league.leagueId}`)
FindLeagueNameFetch(t) ==
  /\ task[t].pc = "ful_name"
  /\ Upd(t, [Issue(task[t], <<"league">>) EXCEPT !.pc = "ful_name_await",
                                                  !.nameCalls = @ + 1])
  /\ UNCHANGED <<frame, users>>

\* league.leagueName = leagueInfo.name, or the catch that only logs; then
\* the test of this league and the rest of the loops
FindLeagueNameResolve(t, ok) ==
  /\ task[t].pc = "ful_name_await"
  /\ LET r == task[t]
         id == users[r.ui].leagues[r.li].leagueId
         got == ok /\ UpName(id) # <<>>
         us == IF got
               THEN [users EXCEPT ![r.ui].leagues[r.li].leagueName = UpName(id)]
               ELSE users
         r1 == [r EXCEPT !.nameFailed = IF got THEN @ ELSE @ \cup {id}]
     IN /\ users' = us
        /\ Upd(t, go(r1, afterName(us, r.hint, r.phase, r.ui, r.li)))
  /\ UNCHANGED frame

\* --------------------------------------------------------- ensureRosterId
\* if (!league.rosterId) { try { if (!user.userId) { await this.rateLimit() ...
EnsureRosterIdEnter(t) ==
  /\ task[t].pc = "er"
  /\ LET r == task[t]
         user == users[r.selU]
         league == user.leagues[r.selL]
     IN IF league.rosterId # ""
        THEN Upd(t, [fulReturn(r, users) EXCEPT !.hadRoster = TRUE])
        ELSE Upd(t, [r EXCEPT !.seqs = @ + 1, !.pc = "rl",
                       !.rlRet = IF user.userId = "" THEN "er_user"
                                 ELSE "er_rosters"])
  /\ UNCHANGED <<frame, users>>

\* fetch(`/user/${user.username}`)
EnsureUserFetch(t) ==
  /\ task[t].pc = "er_user"
  /\ Upd(t, [Issue(task[t], <<"user">>) EXCEPT !.pc = "er_user_await",
                                                !.erCalls = @ + 1])
  /\ UNCHANGED <<frame, users>>

\* rosters.find(r => r.owner_id === id): <<the roster>>, <<>> for undefined
RECURSIVE findRoster(_, _)
findRoster(rosters, id) ==
  IF rosters = <<>> THEN <<>>
  ELSE IF Head(rosters).owner_id = id THEN <<Head(rosters)>>
  ELSE findRoster(Tail(rosters), id)

\* leagueUsers.find(u => u.display_name === user.username ||
\*                       u.user_id === user.userId)
RECURSIVE findMember(_, _)
findMember(leagueUsers, user) ==
  IF leagueUsers = <<>> THEN <<>>
  ELSE IF \/ Head(leagueUsers).display_name = user.username
          \/ Head(leagueUsers).user_id = user.userId
  THEN <<Head(leagueUsers)>>
  ELSE findMember(Tail(leagueUsers), user)

\* user.userId = userInfo.user_id (a null body throws), or the catch:
\* "Don't throw"
EnsureUserResolve(t, ok) ==
  /\ task[t].pc = "er_user_await"
  /\ LET r == task[t]
         user == users[r.selU]
     IN IF ok /\ UpUserId(user.username) # ""
        THEN /\ users' = [users EXCEPT
                            ![r.selU].userId = UpUserId(user.username)]
             /\ Upd(t, [r EXCEPT !.pc = "rl", !.rlRet = "er_rosters"])
        ELSE /\ Upd(t, [fulReturn(r, users) EXCEPT
                          !.failed = "er_user",
                          !.userFailed = @ \cup {user.username}])
             /\ UNCHANGED users
  /\ UNCHANGED frame

\* fetch(`/league/${league.leagueId}/rosters`)
EnsureRostersFetch(t) ==
  /\ task[t].pc = "er_rosters"
  /\ Upd(t, [Issue(task[t], <<"rosters">>) EXCEPT !.pc = "er_rosters_await",
                                                   !.erCalls = @ + 1])
  /\ UNCHANGED <<frame, users>>

\* the response arrives ("body") or the fetch is rejected ("fail")
RosterAnswers == {"body", "fail"}

\* rosters.find(r => r.owner_id === user.userId); found: league.rosterId is
\* set; not found and rosters.length > 0: on to the league members
EnsureRostersResolve(t, answer) ==
  /\ task[t].pc = "er_rosters_await"
  /\ LET r == task[t]
         user == users[r.selU]
         league == user.leagues[r.selL]
         rosters == UpRosters(league.leagueId)
         roster == findRoster(rosters, user.userId)
         us == [users EXCEPT
                  ![r.selU].leagues[r.selL].rosterId = roster[1].roster_id]
     IN IF answer = "fail" \/ ~UpLeague(league.leagueId)
        THEN /\ Upd(t, [fulReturn(r, users) EXCEPT !.failed = "er_rosters"])
             /\ UNCHANGED users
        ELSE IF roster # <<>>
        THEN /\ users' = us
             /\ Upd(t, fulReturn(r, us))
        ELSE IF Len(rosters) > 0
        THEN /\ Upd(t, [r EXCEPT !.pc = "rl", !.rlRet = "er_members"])
             /\ UNCHANGED users
        ELSE /\ Upd(t, fulReturn(r, users))
             /\ UNCHANGED users
  /\ UNCHANGED frame

\* fetch(`/league/${league.leagueId}/users`)
EnsureMembersFetch(t) ==
  /\ task[t].pc = "er_members"
  /\ Upd(t, [Issue(task[t], <<"users">>) EXCEPT !.pc = "er_members_await",
                                                 !.erCalls = @ + 1])
  /\ UNCHANGED <<frame, users>>

MemberAnswers == {"body", "fail"}

\* the member found, then the roster that member owns; if there is one:
\* user.userId = leagueUser.user_id and league.rosterId is set
EnsureMembersResolve(t, answer) ==
  /\ task[t].pc = "er_members_await"
  /\ LET r == task[t]
         user == users[r.selU]
         league == user.leagues[r.selL]
         leagueUser == findMember(UpMembers(league.leagueId), user)
         roster == IF leagueUser = <<>> THEN <<>>
                   ELSE findRoster(UpRosters(league.leagueId),
                                   leagueUser[1].user_id)
         us == [users EXCEPT
                  ![r.selU].userId = leagueUser[1].user_id,
                  ![r.selU].leagues[r.selL].rosterId = roster[1].roster_id]
     IN IF answer = "fail"
        THEN /\ Upd(t, [fulReturn(r, users) EXCEPT !.failed = "er_members"])
             /\ UNCHANGED users
        ELSE IF roster # <<>>
        THEN /\ users' = us
             /\ Upd(t, fulReturn(r, us))
        ELSE /\ Upd(t, fulReturn(r, users))
             /\ UNCHANGED users
  /\ UNCHANGED frame

\* ------------------------------------------------------- the "my" tools
\* faulty variant: a missing roster id is not checked
configResultNoRoster(r) == IF r.selU = 0 THEN "noConfig" ELSE ""

\* if (!config) return {error: "No league configuration found"};
\* if (!rosterId) return {error: "Could not find roster for user in this league"}
configResult(r) ==
  IF r.selU = 0 THEN "noConfig" ELSE IF r.roster = "" THEN "noRoster" ELSE ""

finish(r, result) == [r EXCEPT !.pc = "done", !.outcome = "ok", !.result = result]
throw(r, what) == [r EXCEPT !.pc = "done", !.outcome = "error", !.failed = what]

\* ------------------------------------------------ getWaiverRecommendations
\* the order of the catalog response, which is the order of the Map
CatalogOrder == <<"p1", "p2", "p3", "p4">>
status(id) == IF id = "p3" THEN "Inactive" ELSE "Active"

\* upstream: the players of a roster, the slots of a league, the trending
\* adds and the pts_ppr of a player's projection (0: none)
UpRosterPlayers(leagueId, rosterId) ==
  IF leagueId = "L1" /\ rosterId = "7" THEN <<"p1">> ELSE <<>>
UpRosterPositions(leagueId) ==
  IF leagueId = "L1" THEN <<"QB", "WR", "BN">> ELSE <<"K", "FLEX">>
UpTrending == <<[player_id |-> "p2", count |-> 20]>>
UpPts(id) == CASE id = "p2" -> 8 [] id = "p4" -> 0 [] OTHER -> 5

\* new Set(rosters.flatMap(r => r.players || []))
allRosteredPlayers(leagueId) ==
  UNION { {UpRosterPlayers(leagueId, UpRosters(leagueId)[i].roster_id)[k] :
             k \in DOMAIN UpRosterPlayers(leagueId,
                                          UpRosters(leagueId)[i].roster_id)} :
          i \in DOMAIN UpRosters(leagueId) }

\* positionCounts[pos] || 0, over the roster's players found in the catalog
positionCount(players, pos) ==
  Cardinality({k \in DOMAIN players :
                 players[k] \in playersCache /\ position(players[k]) = pos})

\* positionRequirements[pos]
required(rosterPositions, pos) ==
  Cardinality({k \in DOMAIN rosterPositions : rosterPositions[k] = pos})

\* Math.max(required + 1, Math.ceil(required * 1.5))
recommended(n) == max(n + 1, (3 * n + 1) \div 2)

\* rosterNeeds
rosterNeeds(players, rosterPositions) ==
  {pos \in {rosterPositions[k] : k \in DOMAIN rosterPositions}
            \ {"BN", "FLEX", "SUPER_FLEX"} :
     positionCount(players, pos) < recommended(required(rosterPositions, pos))}

\* trending.find(t => t.player_id === playerId)?.count || 0
trendingCount(playerId) ==
  LET hits == {k \in DOMAIN UpTrending : UpTrending[k].player_id = playerId}
  IN IF hits = {} THEN 0
     ELSE UpTrending[CHOOSE k \in hits : \A j \in hits : k <= j].count

\* one entry of availablePlayers; scores are kept in tenths
candidate(playerId, needs) ==
  [player_id |-> playerId,
   trending_add |-> trendingCount(playerId),
   is_trending |-> \E k \in DOMAIN UpTrending :
                     UpTrending[k].player_id = playerId,
   need_score |-> IF position(playerId) \in needs THEN 10 ELSE 0,
   initial_score |-> trendingCount(playerId)
                       + (IF position(playerId) \in needs THEN 100 ELSE 0),
   asked |-> FALSE, failed |-> FALSE,
   avg_projection |-> 0, overall_score |-> 0]

\* first pass: the free, active players of the catalog (of the position
\* asked for, if any), in the order of the Map
availablePlayers(leagueId, pos, needs) ==
  LET free == SelectSeq(CatalogOrder,
                LAMBDA id : /\ id \in playersCache
                            /\ id \notin allRosteredPlayers(leagueId)
                            /\ status(id) = "Active"
                            /\ (pos = "" \/ position(id) = pos))
  IN [k \in DOMAIN free |-> candidate(free[k], needs)]

\* Array.prototype.sort((a, b) => b[f] - a[f]): stable, descending
RECURSIVE insertDesc(_, _, _)
insertDesc(x, sorted, f) ==
  IF sorted = <<>> THEN <<x>>
  ELSE IF Head(sorted)[f] >= x[f]
  THEN <<Head(sorted)>> \o insertDesc(x, Tail(sorted), f)
  ELSE <<x>> \o sorted
RECURSIVE sortDesc(_, _)
sortDesc(a, f) ==
  IF a = <<>> THEN <<>>
  ELSE insertDesc(a[Len(a)], sortDesc(SubSeq(a, 1, Len(a) - 1), f), f)

\* Array.prototype.slice(0, end) for an integer end
slice(a, end) ==
  SubSeq(a, 1, IF end < 0 THEN max(Len(a) + end, 0)
               ELSE IF end > Len(a) THEN Len(a) ELSE end)

\* Math.min(50, limit ? limit * 3 : 30)
topSlice(limit) ==
  IF (IF limit # 0 THEN limit * 3 ELSE 30) < 50
  THEN (IF limit # 0 THEN limit * 3 ELSE 30) ELSE 50

\* player.avg_projection = avgProjection;
\* player.overall_score = (avgProjection * 2) + player.initial_score
scored(player, avgProjection) ==
  [player EXCEPT !.avg_projection = avgProjection,
                 !.overall_score = 20 * avgProjection + player.initial_score]

\* the second pass from candidate i up to the next await, the rateLimit()
\* before a lookup; past the last candidate: the sort by overall score and
\* recommendations = topCandidates.slice(0, limit || 10)
RECURSIVE waiverGo(_, _)
waiverGo(r, i) ==
  IF i > Len(r.topCandidates)
  THEN [finish(r, "waiver") EXCEPT
          !.next = 0,
          !.recommendations =
             slice(sortDesc(r.topCandidates, "overall_score"),
                   IF r.limit # 0 THEN r.limit ELSE 10)]
  ELSE LET player == r.topCandidates[i] IN
       IF player.is_trending \/ player.need_score > 0
       THEN [r EXCEPT !.next = i, !.pc = "rl", !.rlRet = "wr_proj"]
       ELSE waiverGo([r EXCEPT !.topCandidates[i] = scored(player, 0)], i + 1)

StartGetWaiverRecommendations(t, leagueId, rosterId, pos, limit) ==
  /\ task[t].pc = "idle"
  /\ Upd(t, [Idle EXCEPT !.op = "getWaiverRecommendations", !.pc = "lp",
               !.lpRet = "wr_fan", !.league = leagueId, !.roster = rosterId,
               !.position = pos, !.limit = limit])
  /\ UNCHANGED <<frame, users>>

\* Promise.all of the rosters, trending, state and league requests
GetWaiverRecommendationsFanOut(t) ==
  /\ task[t].pc = "wr_fan"
  /\ Upd(t, [Issue(task[t], <<"rosters", "trending", "state", "league">>)
               EXCEPT !.pc = "wr_fan_await"])
  /\ UNCHANGED <<frame, users>>

\* the four bodies: the roster asked for, the needs, the first pass, the
\* sort by initial score and the slice; then the second pass
GetWaiverRecommendationsFanResolve(t, ok) ==
  /\ task[t].pc = "wr_fan_await"
  /\ LET r == task[t]
         rosters == UpRosters(r.league)
         found == \E k \in DOMAIN rosters : rosters[k].roster_id = r.roster
         needs == rosterNeeds(UpRosterPlayers(r.league, r.roster),
                              UpRosterPositions(r.league))
         sorted == sortDesc(availablePlayers(r.league, r.position, needs),
                            "initial_score")
     IN IF ~ok \/ ~UpLeague(r.league) THEN Upd(t, throw(r, "fan"))
        ELSE IF ~found THEN Upd(t, throw(r, "Roster not found"))
        ELSE Upd(t, waiverGo([r EXCEPT !.topCandidates =
                                 slice(sorted, topSlice(r.limit))], 1))
  /\ UNCHANGED <<frame, users>>

\* after rateLimit(): fetch of the candidate's projection
GetWaiverRecommendationsLookup(t) ==
  /\ task[t].pc = "wr_proj"
  /\ LET r == task[t] IN
     Upd(t, [Issue(r, <<"projection">>) EXCEPT
               !.pc = "wr_proj_await",
               !.topCandidates[r.next].asked = TRUE,
               !.asked = Append(@, r.topCandidates[r.next].player_id)])
  /\ UNCHANGED <<frame, users>>

\* if (projData?.stats?.pts_ppr) avgProjection = projData.stats.pts_ppr;
\* the catch leaves 0; then the rest of the second pass
GetWaiverRecommendationsLookupResolve(t, ok) ==
  /\ task[t].pc = "wr_proj_await"
  /\ LET r == task[t]
         player == r.topCandidates[r.next]
         avgProjection == IF ok THEN UpPts(player.player_id) ELSE 0
         r1 == [r EXCEPT !.topCandidates[r.next] =
                           [scored(player, avgProjection)
                              EXCEPT !.failed = ~ok]]
     IN Upd(t, waiverGo(r1, r.next + 1))
  /\ UNCHANGED <<frame, users>>

\* -------------------------------------------------------------- getMyInfo
\* The loops over this.users and user.leagues, run from a position up to
\* the next await: the fetch of a missing user id, the fetch of a missing
\* league name, or the ensureRosterId() of a binding without roster id.
RECURSIVE infoScan(_, _, _, _)
infoScan(us, u, l, stage) ==
  IF stage = "user"
  THEN IF u > Len(us) THEN Stop("done", 0, u, l)
       ELSE IF us[u].userId = "" THEN Stop("user", 0, u, 0)
       ELSE infoScan(us, u, 1, "league")
  ELSE IF stage = "league"
  THEN IF l > Len(us[u].leagues) THEN infoScan(us, u + 1, 0, "user")
       ELSE IF us[u].leagues[l].leagueName = <<>> THEN Stop("name", 0, u, l)
       ELSE infoScan(us, u, l, "roster")
  ELSE IF us[u].leagues[l].rosterId = "" THEN Stop("ensure", 0, u, l)
       ELSE infoScan(us, u, l + 1, "league")

\* the handler moves on to where the loops stopped; neither fetch of
\* getMyInfo is behind rateLimit()
infoGo(r, st) ==
  LET r1 == [r EXCEPT !.ui = st.u, !.li = st.l] IN
  IF st.kind = "user"
  THEN [Issue(r1, <<"user">>) EXCEPT !.pc = "mi_user_await"]
  ELSE IF st.kind = "name"
  THEN [Issue(r1, <<"league">>) EXCEPT !.pc = "mi_name_await",
                                       !.nameCalls = @ + 1]
  ELSE IF st.kind = "ensure"
  THEN [r1 EXCEPT !.selU = st.u, !.selL = st.l, !.pc = "er"]
  ELSE finish(r1, "info")

StartGetMyInfo(t) ==
  /\ task[t].pc = "idle"
  /\ Upd(t, infoGo([Idle EXCEPT !.op = "getMyInfo", !.fulRet = "mi_next"],
                    infoScan(users, 1, 0, "user")))
  /\ UNCHANGED <<frame, users>>

\* user.userId = userData.user_id (a null body throws), or the catch that
\* sets userConfig.error; then the leagues of this user
GetMyInfoUserResolve(t, ok) ==
  /\ task[t].pc = "mi_user_await"
  /\ LET r == task[t]
         user == users[r.ui]
         got == ok /\ UpUserId(user.username) # ""
         us == IF got
               THEN [users EXCEPT ![r.ui].userId = UpUserId(user.username)]
               ELSE users
         r1 == [r EXCEPT !.userFailed =
                           IF got THEN @ ELSE @ \cup {user.username}]
     IN /\ users' = us
        /\ Upd(t, infoGo(r1, infoScan(us, r.ui, 1, "league")))
  /\ UNCHANGED frame

\* league.leagueName = leagueData.name, then the roster id of this league;
\* or the catch that sets leagueInfo.error, then the next league
GetMyInfoNameResolve(t, ok) ==
  /\ task[t].pc = "mi_name_await"
  /\ LET r == task[t]
         id == users[r.ui].leagues[r.li].leagueId
         got == ok /\ UpName(id) # <<>>
         us == IF got
               THEN [users EXCEPT ![r.ui].leagues[r.li].leagueName = UpName(id)]
               ELSE users
         r1 == [r EXCEPT !.nameFailed = IF got THEN @ ELSE @ \cup {id}]
     IN /\ users' = us
        /\ Upd(t, infoGo(r1, IF got THEN infoScan(us, r.ui, r.li, "roster")
                             ELSE infoScan(us, r.ui, r.li + 1, "league")))
  /\ UNCHANGED frame

\* ensureRosterId() has returned: leagueInfo is pushed, then the next league
GetMyInfoNext(t) ==
  /\ task[t].pc = "mi_next"
  /\ Upd(t, infoGo(task[t], infoScan(users, task[t].ui, task[t].li + 1,
                                      "league")))
  /\ UNCHANGED <<frame, users>>

\* ----------------------------------------------------------- getMyMatchup
StartGetMyMatchup(t, week, hint) ==
  /\ task[t].pc = "idle"
  /\ Upd(t, [Idle EXCEPT !.op = "getMyMatchup", !.pc = "lp", !.lpRet = "ful",
               !.fulRet = "mm_cfg", !.week = week, !.hint = hint])
  /\ UNCHANGED <<frame, users>>

\* after findUserAndLeague(): the two early returns, else fetch(`/state/nfl`)
GetMyMatchupConfig(t) ==
  /\ task[t].pc = "mm_cfg"
  /\ LET r == task[t] IN
     IF configResult(r) # ""
     THEN Upd(t, finish(r, configResult(r)))
     ELSE Upd(t, [Issue(r, <<"state">>) EXCEPT !.pc = "mm_state_await"])
  /\ UNCHANGED <<frame, users>>

\* actualWeek and isHistorical, then fetch(`/league/${id}/users`)
GetMyMatchupState(t, ok) ==
  /\ task[t].pc = "mm_state_await"
  /\ LET r == task[t] IN
     IF ~ok THEN Upd(t, throw(r, "state"))
     ELSE Upd(t, [Issue(r, <<"users">>) EXCEPT
                    !.pc = "mm_users_await",
                    !.week = IF r.week = 0 THEN nflWeek ELSE r.week,
                    !.branch = IF r.week # 0 /\ r.week < nflWeek
                               THEN "historical" ELSE "projected"])
  /\ UNCHANGED <<frame, users>>

\* fetch(`/league/${id}/rosters`)
GetMyMatchupUsers(t, ok) ==
  /\ task[t].pc = "mm_users_await"
  /\ IF ~ok THEN Upd(t, throw(task[t], "users"))
     ELSE Upd(t, [Issue(task[t], <<"rosters">>) EXCEPT !.pc = "mm_rosters_await"])
  /\ UNCHANGED <<frame, users>>

\* if (isHistorical) fetch the week's matchups, else
\* return await this.previewMatchup(league.leagueId, actualWeek, rosterId)
GetMyMatchupRosters(t, ok) ==
  /\ task[t].pc = "mm_rosters_await"
  /\ LET r == task[t] IN
     IF ~ok THEN Upd(t, throw(r, "rosters"))
     ELSE IF r.branch = "historical"
     THEN Upd(t, [Issue(r, <<"matchups">>) EXCEPT !.pc = "mm_matchups_await"])
     ELSE Upd(t, previewCall(r.league, r.week))
  /\ UNCHANGED <<frame, users>>

\* opponent: oppMatchup ? team name : 'BYE', opponent_score: 0, result: "N/A"
GetMyMatchupMatchups(t, ok) ==
  /\ task[t].pc = "mm_matchups_await"
  /\ IF ~ok THEN Upd(t, throw(task[t], "matchups"))
     ELSE Upd(t, [finish(task[t], "historical") EXCEPT
                    !.opponent = IF upBye THEN "BYE" ELSE "team"])
  /\ UNCHANGED <<frame, users>>

\* ----------------------------------------------------- getMySeasonHistory
StartGetMySeasonHistory(t, hint) ==
  /\ task[t].pc = "idle"
  /\ Upd(t, [Idle EXCEPT !.op = "getMySeasonHistory", !.pc = "ful",
               !.fulRet = "ms_cfg", !.hint = hint])
  /\ UNCHANGED <<frame, users>>

GetMySeasonHistoryConfig(t) ==
  /\ task[t].pc = "ms_cfg"
  /\ LET r == task[t] IN
     IF configResult(r) # ""
     THEN Upd(t, finish(r, configResult(r)))
     ELSE Upd(t, [r EXCEPT !.pc = "rl", !.rlRet = "ms_fan"])
  /\ UNCHANGED <<frame, users>>

\* Promise.all([state, users, rosters])
GetMySeasonHistoryFanOut(t) ==
  /\ task[t].pc = "ms_fan"
  /\ Upd(t, [Issue(task[t], <<"state", "users", "rosters">>)
               EXCEPT !.pc = "ms_fan_await"])
  /\ UNCHANGED <<frame, users>>

\* for (let week = 1; week < currentWeek; week++) { await this.rateLimit() ...
seasonNext(r, week) ==
  IF week < r.upto THEN [r EXCEPT !.week = week, !.pc = "rl", !.rlRet = "ms_week"]
  ELSE finish(r, "history")

GetMySeasonHistoryFanResolve(t, ok) ==
  /\ task[t].pc = "ms_fan_await"
  /\ IF ~ok THEN Upd(t, throw(task[t], "fan"))
     ELSE Upd(t, seasonNext([task[t] EXCEPT !.upto = nflWeek], 1))
  /\ UNCHANGED <<frame, users>>

GetMySeasonHistoryWeekFetch(t) ==
  /\ task[t].pc = "ms_week"
  /\ Upd(t, [Issue(task[t], <<"matchups">>) EXCEPT !.pc = "ms_week_await"])
  /\ UNCHANGED <<frame, users>>

GetMySeasonHistoryWeekResolve(t, ok) ==
  /\ task[t].pc = "ms_week_await"
  /\ IF ~ok THEN Upd(t, throw(task[t], "matchups"))
     ELSE Upd(t, seasonNext(task[t], task[t].week + 1))
  /\ UNCHANGED <<frame, users>>

\* ---------------------------------------------------------- getMyOpponent
StartGetMyOpponent(t, week, hint) ==
  /\ task[t].pc = "idle"
  /\ Upd(t, [Idle EXCEPT !.op = "getMyOpponent", !.pc = "ful",
               !.fulRet = "mo_cfg", !.week = week, !.hint = hint])
  /\ UNCHANGED <<frame, users>>

\* if (!actualWeek) { await this.rateLimit(); fetch(`/state/nfl`) ...
GetMyOpponentConfig(t) ==
  /\ task[t].pc = "mo_cfg"
  /\ LET r == task[t] IN
     IF configResult(r) # ""
     THEN Upd(t, finish(r, configResult(r)))
     ELSE Upd(t, [r EXCEPT !.pc = "rl",
                    !.rlRet = IF r.week = 0 THEN "mo_state" ELSE "mo_matchups"])
  /\ UNCHANGED <<frame, users>>

\* the sequential requests, each after its own rateLimit()
MoEndpoint ==
  [mo_state |-> "state", mo_matchups |-> "matchups", mo_rosters |-> "rosters",
   mo_users |-> "users"]
MoNext ==
  [state |-> "mo_matchups", matchups |-> "mo_rosters", rosters |-> "mo_users"]

GetMyOpponentFetch(t) ==
  /\ task[t].pc \in DOMAIN MoEndpoint
  /\ Upd(t, [Issue(task[t], <<MoEndpoint[task[t].pc]>>) EXCEPT !.pc = "mo_await"])
  /\ UNCHANGED <<frame, users>>

\* if (!oppMatchup) return {message: "No opponent this week (bye week or playoffs)"}
GetMyOpponentResolve(t, ok) ==
  /\ task[t].pc = "mo_await"
  /\ LET r == task[t]
         ep == r.reqs[1].ep
     IN IF ~ok THEN Upd(t, throw(r, ep))
        ELSE IF ep \in DOMAIN MoNext
        THEN Upd(t, [r EXCEPT !.pc = "rl", !.rlRet = MoNext[ep],
                       !.week = IF ep = "state" THEN nflWeek ELSE @])
        ELSE IF upBye
        THEN Upd(t, [finish(r, "noOpponent") EXCEPT !.opponent = "absent"])
        ELSE Upd(t, [finish(r, "opponent") EXCEPT !.opponent = "team"])
  /\ UNCHANGED <<frame, users>>

\* ------------------------------------------------------ request handler
\* if (this.users.length === 0 || (this.users.length === 1 &&
\*     this.users[0].username === 'your_sleeper_username'))
needsValidation ==
  \/ Len(users) = 0
  \/ Len(users) = 1 /\ users[1].username = PLACEHOLDER_USERNAME

\* validateConfiguration(): the message it throws ("": it returns)
validateConfiguration ==
  IF Len(users) = 0 THEN "No Sleeper configuration found"
  ELSE IF users[1].username = <<>> \/ Len(users[1].leagues) = 0
  THEN "Invalid configuration"
  ELSE IF \/ users[1].username = PLACEHOLDER_USERNAME
          \/ users[1].leagues[1].leagueId = PLACEHOLDER_LEAGUE
  THEN "Please update the placeholder values"
  ELSE ""

ToolNames == {"get_user", "show_my_matchup", "show_my_season_record",
              "show_my_opponent", "no_such_tool"}

\* the CallTool handler up to the first await of the tool it dispatches to
CallTool(t, name, week, hint) ==
  /\ task[t].pc = "idle"
  /\ LET err == IF needsValidation THEN validateConfiguration ELSE "" IN
     IF err # ""
     THEN /\ Upd(t, [throw([Idle EXCEPT !.op = name], "config")
                       EXCEPT !.message = err])
          /\ UNCHANGED <<frame, users>>
     ELSE CASE name = "get_user" -> StartGetUser(t)
            [] name = "show_my_matchup" -> StartGetMyMatchup(t, week, hint)
            [] name = "show_my_season_record" -> StartGetMySeasonHistory(t, hint)
            [] name = "show_my_opponent" -> StartGetMyOpponent(t, week, hint)
            [] OTHER ->
                 /\ Upd(t, [throw([Idle EXCEPT !.op = name], "unknown")
                              EXCEPT !.message = "Unknown tool"])
                 /\ UNCHANGED <<frame, users>>

\* faulty variant: no catch around the switch
payloadUncaught(outcome) == IF outcome = "error" THEN "escaped" ELSE "result"

\* what the handler returns: the tool's result, or from the catch
\* {content: [{type: "text", text: `Error: ${error.message}`}]}
payload(outcome) == IF outcome = "error" THEN "Error: message" ELSE "result"

CallToolReply(t) ==
  /\ task[t].pc = "done"
  /\ task[t].reply = ""
  /\ Upd(t, [task[t] EXCEPT !.reply = payload(task[t].outcome)])
  /\ UNCHANGED <<frame, users>>

\* the timer of a sleeping rateLimit() comes due
Sleep(t) ==
  /\ task[t].pc = "rl_sleep"
  /\ now < task[t].wakeAt
  /\ ticks < MaxSleeps
  /\ now' = task[t].wakeAt
  /\ ticks' = ticks + 1
  /\ UNCHANGED <<envVars, lastRequestTime, currentWeek, currentWeekCache,
                 playersCache, users, task, lastGap, lastPreview>>

\* ------------------------------------------------- handler has returned
Return(t) ==
  /\ task[t].pc = "done"
  /\ Upd(t, Idle)
  /\ UNCHANGED <<clock, envVars, lastRequestTime, currentWeek,
                 currentWeekCache, playersCache, users, lastGap, lastPreview>>

\* ------------------------------------------------------------------ system
Config == <<User(al, <<"L1">>)>>

Init ==
  /\ now = Boot
  /\ ticks = 0
  /\ build \in Builds
  /\ nflWeek = 1
  /\ upRows \in 0..1
  /\ upBye = FALSE
  /\ upStats = PprRow
  /\ upWeights = PprLeague
  /\ lastRequestTime = 0
  /\ currentWeek = 0
  /\ currentWeekCache = EmptyCache
  /\ playersCache = {}
  /\ users = Config
  /\ task = [t \in Tasks |-> Idle]
  /\ lastGap = -1
  /\ lastPreview = NoPrev

\* the week cache: previews of one league and season-state queries, one
\* handler at a time, the clock moving in half TTLs, the season rolling over
CacheSteps == {CACHE_DURATION \div 2}
CacheTasks == {1}
CacheLeagues == {"L1"}

Next ==
  \/ \E d \in CacheSteps : Tick(d)
  \/ WeekRollover
  \/ \E t \in CacheTasks :
       \/ RateLimitEnter(t)
       \/ RateLimitWake(t)
       \/ LoadPlayersCacheEnter(t)
       \/ \E ok \in BOOLEAN : LoadPlayersCacheResolve(t, ok)
       \/ StartGetNFLState(t)
       \/ \E ok \in BOOLEAN : GetNFLStateResolve(t, ok)
       \/ \E l \in CacheLeagues, w \in Weeks : StartPreviewMatchup(t, l, w)
       \/ PreviewMatchupCheck(t)
       \/ \E ok \in BOOLEAN, found \in BOOLEAN : PreviewMatchupJoin(t, ok, found)
       \/ PreviewMatchupBulkFetch(t)
       \/ \E ok \in BOOLEAN : PreviewMatchupBulkResolve(t, ok)
       \/ Return(t)

Spec == Init /\ [][Next]_vars

\* the pacer and the player catalog: overlapping handlers, the clock moving
\* in request delays, no season-state query
PacerSteps == {requestDelay}

NextPacer ==
  \/ \E d \in PacerSteps : Tick(d)
  \/ \E t \in Tasks :
       \/ RateLimitEnter(t)
       \/ RateLimitWake(t)
       \/ LoadPlayersCacheEnter(t)
       \/ \E ok \in BOOLEAN : LoadPlayersCacheResolve(t, ok)
       \/ StartGetUser(t)
       \/ \E ok \in BOOLEAN : GetUserResolve(t, ok)
       \/ StartGetPlayerDetails(t)
       \/ GetPlayerDetailsMap(t)
       \/ StartAnalyzeTrade(t, <<"p1">>, <<"p2">>)
       \/ AnalyzeTradeFanOut(t)
       \/ \E ok \in BOOLEAN : AnalyzeTradeResolve(t, ok)
       \/ StartPreviewMatchup(t, "L1", 1)
       \/ PreviewMatchupCheck(t)
       \/ \E ok \in BOOLEAN, found \in BOOLEAN : PreviewMatchupJoin(t, ok, found)
       \/ PreviewMatchupBulkFetch(t)
       \/ \E ok \in BOOLEAN : PreviewMatchupBulkResolve(t, ok)
       \/ Return(t)

SpecPacer == Init /\ [][NextPacer]_vars

\* the player catalog alone: overlapping handlers that call loadPlayersCache()
NextCatalog ==
  \E t \in Tasks :
    \/ LoadPlayersCacheEnter(t)
    \/ \E ok \in BOOLEAN : LoadPlayersCacheResolve(t, ok)
    \/ StartGetPlayerDetails(t)
    \/ GetPlayerDetailsMap(t)
    \/ StartAnalyzeTrade(t, <<"p1">>, <<"p2">>)
    \/ AnalyzeTradeFanOut(t)
    \/ \E ok \in BOOLEAN : AnalyzeTradeResolve(t, ok)
    \/ Return(t)

SpecCatalog == Init /\ [][NextCatalog]_vars

\* the tools that resolve the configured account: one handler at a time,
\* any configuration, no league hint, a bye or not upstream
ToolTasks == {1}

InitTools ==
  /\ now = Boot
  /\ ticks = 0
  /\ build \in Builds
  /\ nflWeek = MaxWeek
  /\ upRows = 1
  /\ upBye \in BOOLEAN
  /\ upStats = PprRow
  /\ upWeights = PprLeague
  /\ lastRequestTime = 0
  /\ currentWeek = 0
  /\ currentWeekCache = EmptyCache
  /\ playersCache = {}
  /\ users \in Configs
  /\ task = [t \in Tasks |-> Idle]
  /\ lastGap = -1
  /\ lastPreview = NoPrev

NextTools ==
  \E t \in ToolTasks :
    \/ \E name \in ToolNames, week \in {0} \cup Weeks :
         CallTool(t, name, week, <<>>)
    \/ CallToolReply(t)
    \/ task[t].reply # "" /\ Return(t)
    \/ Sleep(t)
    \/ RateLimitEnter(t)
    \/ RateLimitWake(t)
    \/ LoadPlayersCacheEnter(t)
    \/ \E ok \in BOOLEAN : LoadPlayersCacheResolve(t, ok)
    \/ \E ok \in BOOLEAN : GetUserResolve(t, ok)
    \/ FindUserAndLeagueEnter(t)
    \/ EnsureRosterIdEnter(t)
    \/ EnsureUserFetch(t)
    \/ \E ok \in BOOLEAN : EnsureUserResolve(t, ok)
    \/ EnsureRostersFetch(t)
    \/ \E answer \in RosterAnswers : EnsureRostersResolve(t, answer)
    \/ EnsureMembersFetch(t)
    \/ \E answer \in MemberAnswers : EnsureMembersResolve(t, answer)
    \/ GetMyMatchupConfig(t)
    \/ \E ok \in BOOLEAN : GetMyMatchupState(t, ok)
    \/ \E ok \in BOOLEAN : GetMyMatchupUsers(t, ok)
    \/ \E ok \in BOOLEAN : GetMyMatchupRosters(t, ok)
    \/ \E ok \in BOOLEAN : GetMyMatchupMatchups(t, ok)
    \/ GetMySeasonHistoryConfig(t)
    \/ GetMySeasonHistoryFanOut(t)
    \/ \E ok \in BOOLEAN : GetMySeasonHistoryFanResolve(t, ok)
    \/ GetMySeasonHistoryWeekFetch(t)
    \/ \E ok \in BOOLEAN : GetMySeasonHistoryWeekResolve(t, ok)
    \/ GetMyOpponentConfig(t)
    \/ GetMyOpponentFetch(t)
    \/ \E ok \in BOOLEAN : GetMyOpponentResolve(t, ok)
    \/ PreviewMatchupCheck(t)
    \/ \E ok \in BOOLEAN, found \in BOOLEAN : PreviewMatchupJoin(t, ok, found)
    \/ PreviewMatchupBulkFetch(t)
    \/ \E ok \in BOOLEAN : PreviewMatchupBulkResolve(t, ok)

SpecTools == InitTools /\ [][NextTools]_vars

\* projected points: one preview at a time, any of the upstream rows against
\* any of the upstream scoring settings
InitScoring ==
  /\ now = Boot
  /\ ticks = 0
  /\ build \in Builds
  /\ nflWeek = MaxWeek
  /\ upRows = 1
  /\ upBye = FALSE
  /\ upStats \in StatRows
  /\ upWeights \in LeagueWeights
  /\ lastRequestTime = 0
  /\ currentWeek = 0
  /\ currentWeekCache = EmptyCache
  /\ playersCache = {}
  /\ users = Config
  /\ task = [t \in Tasks |-> Idle]
  /\ lastGap = -1
  /\ lastPreview = NoPrev

NextScoring ==
  \E t \in ToolTasks :
    \/ StartPreviewMatchup(t, "L1", nflWeek)
    \/ Sleep(t)
    \/ RateLimitEnter(t)
    \/ RateLimitWake(t)
    \/ LoadPlayersCacheEnter(t)
    \/ \E ok \in BOOLEAN : LoadPlayersCacheResolve(t, ok)
    \/ PreviewMatchupCheck(t)
    \/ \E ok \in BOOLEAN, found \in BOOLEAN : PreviewMatchupJoin(t, ok, found)
    \/ PreviewMatchupBulkFetch(t)
    \/ \E ok \in BOOLEAN : PreviewMatchupBulkResolve(t, ok)
    \/ Return(t)

SpecScoring == InitScoring /\ [][NextScoring]_vars

\* trades: one evaluation at a time, any two sides of catalog players, the
\* catalog loaded or not
RECURSIVE SeqsUpTo(_, _)
SeqsUpTo(S, n) ==
  IF n = 0 THEN {<<>>}
  ELSE LET shorter == SeqsUpTo(S, n - 1)
       IN shorter \cup {Append(q, x) : q \in shorter, x \in S}

Sides == SeqsUpTo(Catalog, MaxSide)

NextTrade ==
  \E t \in ToolTasks :
    \/ \E playersFrom1 \in Sides, playersFrom2 \in Sides :
         StartAnalyzeTrade(t, playersFrom1, playersFrom2)
    \/ LoadPlayersCacheEnter(t)
    \/ \E ok \in BOOLEAN : LoadPlayersCacheResolve(t, ok)
    \/ AnalyzeTradeFanOut(t)
    \/ \E ok \in BOOLEAN : AnalyzeTradeResolve(t, ok)
    \/ Return(t)

SpecTrade == Init /\ [][NextTrade]_vars

\* the shared timestamp: previews of the active week of two leagues, one
\* handler at a time, the clock moving in steps just over half the TTL
SharedSteps == {CACHE_DURATION \div 2 + 1}
SharedLeagues == {"L1", "L2"}

NextShared ==
  \/ \E d \in SharedSteps : Tick(d)
  \/ \E t \in CacheTasks :
       \/ RateLimitEnter(t)
       \/ RateLimitWake(t)
       \/ LoadPlayersCacheEnter(t)
       \/ \E ok \in BOOLEAN : LoadPlayersCacheResolve(t, ok)
       \/ StartGetNFLState(t)
       \/ \E ok \in BOOLEAN : GetNFLStateResolve(t, ok)
       \/ \E l \in SharedLeagues : StartPreviewMatchup(t, l, nflWeek)
       \/ PreviewMatchupCheck(t)
       \/ \E ok \in BOOLEAN, found \in BOOLEAN : PreviewMatchupJoin(t, ok, found)
       \/ PreviewMatchupBulkFetch(t)
       \/ \E ok \in BOOLEAN : PreviewMatchupBulkResolve(t, ok)
       \/ Return(t)

SpecShared == Init /\ [][NextShared]_vars

\* recovery of a stale cache: the server has seen the season state once
\* (get_current_week at start) and from then on only previews of the active
\* week of one league are called, again and again; every handler step that
\* can run does run, and upstream answers
InitRefresh ==
  /\ now = Boot
  /\ ticks = 0
  /\ build \in Builds
  /\ nflWeek = 1
  /\ upRows \in 0..1
  /\ upBye = FALSE
  /\ upStats = PprRow
  /\ upWeights = PprLeague
  /\ lastRequestTime = 0
  /\ currentWeek = nflWeek
  /\ currentWeekCache = EmptyCache
  /\ playersCache = {}
  /\ users = Config
  /\ task = [t \in Tasks |-> Idle]
  /\ lastGap = -1
  /\ lastPreview = NoPrev

NextRefresh ==
  \/ \E d \in SharedSteps : Tick(d)
  \/ \E t \in CacheTasks :
       \/ RateLimitEnter(t)
       \/ RateLimitWake(t)
       \/ LoadPlayersCacheEnter(t)
       \/ \E ok \in BOOLEAN : LoadPlayersCacheResolve(t, ok)
       \/ \E l \in CacheLeagues : StartPreviewMatchup(t, l, nflWeek)
       \/ PreviewMatchupCheck(t)
       \/ \E ok \in BOOLEAN, found \in BOOLEAN : PreviewMatchupJoin(t, ok, found)
       \/ PreviewMatchupBulkFetch(t)
       \/ \E ok \in BOOLEAN : PreviewMatchupBulkResolve(t, ok)
       \/ Return(t)

FairRefresh ==
  /\ WF_vars(\E d \in SharedSteps : Tick(d))
  /\ \A t \in CacheTasks :
       /\ WF_vars(RateLimitEnter(t))
       /\ WF_vars(RateLimitWake(t))
       /\ WF_vars(LoadPlayersCacheEnter(t))
       /\ SF_vars(LoadPlayersCacheResolve(t, TRUE))
       /\ WF_vars(\E l \in CacheLeagues : StartPreviewMatchup(t, l, nflWeek))
       /\ WF_vars(PreviewMatchupCheck(t))
       /\ SF_vars(PreviewMatchupJoin(t, TRUE, TRUE))
       /\ WF_vars(PreviewMatchupBulkFetch(t))
       /\ SF_vars(PreviewMatchupBulkResolve(t, TRUE))
       /\ WF_vars(Return(t))

SpecRefresh == InitRefresh /\ [][NextRefresh]_vars /\ FairRefresh

\* overlapping resolutions: two handlers of the season record at once in
\* the first week of the season, one account with two leagues, the first
\* league (no hint) or the second (hinted by its id); the fetches of the
\* roster resolution may fail
ResolveTasks == {1, 2}
ResolveHints == {<<>>, <<"L2">>}

InitResolve ==
  /\ now = Boot
  /\ ticks = 0
  /\ build = "part_001"
  /\ nflWeek = 1
  /\ upRows = 1
  /\ upBye = FALSE
  /\ upStats = PprRow
  /\ upWeights = PprLeague
  /\ lastRequestTime = 0
  /\ currentWeek = 0
  /\ currentWeekCache = EmptyCache
  /\ playersCache = {}
  /\ users = <<User(al, <<"L1", "L2">>)>>
  /\ task = [t \in Tasks |-> Idle]
  /\ lastGap = -1
  /\ lastPreview = NoPrev

NextResolve ==
  \E t \in ResolveTasks :
    \/ \E hint \in ResolveHints : StartGetMySeasonHistory(t, hint)
    \/ Sleep(t)
    \/ RateLimitEnter(t)
    \/ RateLimitWake(t)
    \/ FindUserAndLeagueEnter(t)
    \/ FindLeagueNameResolve(t, TRUE)
    \/ EnsureRosterIdEnter(t)
    \/ EnsureUserFetch(t)
    \/ \E ok \in BOOLEAN : EnsureUserResolve(t, ok)
    \/ EnsureRostersFetch(t)
    \/ \E answer \in RosterAnswers : EnsureRostersResolve(t, answer)
    \/ EnsureMembersFetch(t)
    \/ \E answer \in MemberAnswers : EnsureMembersResolve(t, answer)
    \/ GetMySeasonHistoryConfig(t)
    \/ GetMySeasonHistoryFanOut(t)
    \/ GetMySeasonHistoryFanResolve(t, TRUE)
    \/ Return(t)

SpecResolve == InitResolve /\ [][NextResolve]_vars

\* league hints: the season record of a hinted league, several bindings
HintConfigs == {c \in Configs : Len(c) > 1 \/ (Len(c) = 1 /\ Len(c[1].leagues) > 1)}

InitHints ==
  /\ InitTools
  /\ users \in HintConfigs
  /\ ~upBye
  /\ build = "index.ts"

NextHints ==
  \E t \in ToolTasks :
    \/ \E hint \in Hints \ {<<>>} : CallTool(t, "show_my_season_record", 0, hint)
    \/ CallToolReply(t)
    \/ task[t].reply # "" /\ Return(t)
    \/ Sleep(t)
    \/ RateLimitEnter(t)
    \/ RateLimitWake(t)
    \/ FindUserAndLeagueEnter(t)
    \/ FindLeagueNameFetch(t)
    \/ \E ok \in BOOLEAN : FindLeagueNameResolve(t, ok)
    \/ EnsureRosterIdEnter(t)
    \/ EnsureUserFetch(t)
    \/ \E ok \in BOOLEAN : EnsureUserResolve(t, ok)
    \/ EnsureRostersFetch(t)
    \/ \E answer \in RosterAnswers : EnsureRostersResolve(t, answer)
    \/ EnsureMembersFetch(t)
    \/ \E answer \in MemberAnswers : EnsureMembersResolve(t, answer)
    \/ GetMySeasonHistoryConfig(t)
    \/ GetMySeasonHistoryFanOut(t)
    \/ \E ok \in BOOLEAN : GetMySeasonHistoryFanResolve(t, ok)
    \/ GetMySeasonHistoryWeekFetch(t)
    \/ \E ok \in BOOLEAN : GetMySeasonHistoryWeekResolve(t, ok)

SpecHints == InitHints /\ [][NextHints]_vars

\* ================================================================= claims
Previews == {t \in Tasks : task[t].op = "previewMatchup"}
PastCheck == {"pm_await", "rl", "rl_sleep", "pm_bulk", "pm_bulk_await", "done"}
Endpoints(r) == {r.reqs[i].ep : i \in DOMAIN r.reqs}

\* C1: any two consecutive returns from rateLimit() are at least requestDelay
\* apart, whatever the interleaving of the callers.
C1_ReturnsSpaced == lastGap = -1 \/ lastGap >= requestDelay

\* C2: every upstream request is preceded by its own completed rateLimit().
C2_AllRequestsPaced ==
  \A t \in Tasks : \A i \in DOMAIN task[t].reqs : task[t].reqs[i].paced

\* C3 (as claimed): an active-week preview that starts less than 5 minutes
\* after the previous one of the same league and week returns the same
\* matchups, rosters and bulk projections and issues no upstream call.
C3_SecondPreviewFree ==
  [][\A t \in Tasks :
       ( /\ task[t].op = "previewMatchup"
         /\ task[t].pc # "done"
         /\ task'[t].pc = "done"
         /\ task'[t].outcome = "ok"
         /\ task'[t].isCurrentWeek
         /\ lastPreview.league = task[t].league
         /\ lastPreview.week = task[t].week
         /\ task[t].startedAt - lastPreview.at < CACHE_DURATION )
       => ( /\ task'[t].matchups = lastPreview.matchups
            /\ task'[t].rosters = lastPreview.rosters
            /\ task'[t].bulk = lastPreview.bulk
            /\ task'[t].calls = 0 )]_vars

\* C3 (amended): a preview that finds the cache valid and holding the league's
\* matchups and rosters uses exactly those objects (and the cached bulk
\* projections when their key is present), less than 5 minutes after the
\* cache was last written, and requests neither matchups nor rosters: it
\* still requests users and league info, plus the projections when their key
\* is absent and the player catalog when it is still empty.
C3_HitUsesCache ==
  \A t \in Previews :
    LET r == task[t] IN
    r.branch = "hit" =>
      /\ r.isCurrentWeek
      /\ r.hitAge >= 0 /\ r.hitAge < CACHE_DURATION
      /\ r.matchups # NoVal /\ r.matchups = currentWeekCache.matchups[r.league]
      /\ r.rosters # NoVal /\ r.rosters = currentWeekCache.rosters[r.league]
      /\ (r.bulkSrc = "cache" =>
            r.bulk = currentWeekCache.bulkProjections[<<r.week, r.league>>])
      /\ Endpoints(r) \subseteq {"users", "league", "projections"}
      /\ "users" \in Endpoints(r) \/ "projections" \in Endpoints(r)
      /\ r.calls <= 4
      /\ (r.pc = "done" /\ r.bulkSrc = "cache" => r.calls <= 3)

C3_Witness ==
  \E t \in Previews :
    /\ task[t].pc = "done" /\ task[t].outcome = "ok"
    /\ task[t].branch = "hit" /\ task[t].bulkSrc = "cache"
    /\ lastPreview.matchups = task[t].matchups
    /\ task[t].calls = 2

\* C4: once the timestamp is 5 minutes old, the next cache access by any
\* operation (a preview's cache check, a season-state answer) leaves the four
\* maps empty.
MapsEmpty(c) ==
  /\ \A l \in Leagues : c.matchups[l] = NoVal /\ c.rosters[l] = NoVal
  /\ c.projections = {}
  /\ \A k \in Weeks \X Leagues : c.bulkProjections[k] = NoVal

C4_EagerSweep ==
  [][\A t \in Tasks :
       ( /\ ~isCacheValid
         /\ \/ task[t].pc = "pm_check" /\ task'[t].pc = "pm_await"
            \/ task[t].pc = "ns_await" /\ task'[t].outcome = "ok" )
       => MapsEmpty(currentWeekCache')]_vars

\* C5: whenever a preview answers from the week cache (matchups and rosters,
\* or bulk projections), the cache timestamp is less than 5 minutes old.
C5_NoStaleAnswer ==
  \A t \in Previews :
    /\ task[t].hitAge # -1 => task[t].hitAge < CACHE_DURATION
    /\ task[t].bulkAge # -1 => task[t].bulkAge < CACHE_DURATION

\* C6: an active-week preview that had to fetch matchups and rosters live
\* (nothing cached, or the timestamp too old, 0 included) has stored them.
C6_LiveFetchStored ==
  \A t \in Previews :
    ( /\ task[t].isCurrentWeek
      /\ task[t].branch # "hit"
      /\ task[t].matchups # NoVal )
    => /\ task[t].stored
       /\ currentWeekCache.matchups[task[t].league] # NoVal

\* C7: a preview for a week other than the last observed current week takes
\* the live branch, is answered by nothing from the cache, and none of its
\* steps changes a cache map or the timestamp.
C7_State ==
  \A t \in Previews :
    LET r == task[t] IN
    (r.pc \in PastCheck /\ ~r.isCurrentWeek) =>
      /\ r.branch = "bypass"
      /\ ~r.wrote /\ ~r.stored
      /\ r.hitAge = -1 /\ r.bulkAge = -1 /\ r.bulkSrc # "cache"
      /\ (r.matchups # NoVal => r.matchups.at >= r.startedAt)
      /\ (r.pc = "done" /\ r.failed \notin {"join", "notfound"} => r.calls >= 5)

C7_Step ==
  \A t \in Previews :
    ( /\ task'[t] # task[t]
      /\ \/ task[t].pc = "pm_check" /\ ~isCurrentWeekOf(task[t].week)
         \/ task[t].pc \in PastCheck /\ ~task[t].isCurrentWeek )
    => /\ currentWeekCache' = currentWeekCache
       /\ ~task'[t].isCurrentWeek

C7_OtherWeekBypasses == []C7_State /\ [][C7_Step]_vars

C7_Witness ==
  \E t \in Previews :
    /\ task[t].pc = "done" /\ task[t].outcome = "ok"
    /\ ~task[t].isCurrentWeek /\ currentWeek # 0
    /\ isCacheValid /\ cacheHit(task[t].league)
    /\ \E k \in Weeks \X Leagues : currentWeekCache.bulkProjections[k] # NoVal

\* C8 (as claimed): a preview in which the join-all or the bulk projections
\* fetch failed ends in an error and has written nothing to the cache.
C8_AnyFailureLeavesCache ==
  \A t \in Previews :
    (task[t].pc = "done" /\ task[t].failed \in {"join", "bulk"})
    => (task[t].outcome = "error" /\ ~task[t].wrote)

\* C8 (amended): a failed join-all (matchups, rosters, users, league info)
\* ends the preview in an error with the cache exactly as it was; a failed
\* bulk projections fetch is swallowed and stores no bulkProjections entry.
C8_State ==
  \A t \in Previews :
    LET r == task[t] IN
    /\ (r.pc = "done" /\ r.failed = "join") =>
          (r.outcome = "error" /\ ~r.wrote /\ ~r.stored)
    /\ (r.pc = "done" /\ r.failed = "bulk") =>
          /\ r.outcome = "ok" /\ r.bulk = NoVal
          /\ r.isCurrentWeek =>
                currentWeekCache.bulkProjections[<<r.week, r.league>>] = NoVal

C8_Step ==
  \A t \in Previews :
    ( /\ task[t].pc \in {"pm_await", "pm_bulk_await"}
      /\ task'[t].failed \in {"join", "bulk"} )
    => currentWeekCache' = currentWeekCache

C8_JoinFailureLeavesCache == []C8_State /\ [][C8_Step]_vars

C8_Witness ==
  \E t \in Previews :
    /\ task[t].pc = "done" /\ task[t].failed = "join"
    /\ task[t].branch = "miss" /\ task[t].outcome = "error"

\* C9: no preview is answered from the cache with matchups that were fetched
\* for another week than the one asked for.
C9_NoOtherWeekMatchups ==
  \A t \in Previews :
    task[t].branch = "hit" => task[t].matchups.week = task[t].week

\* C10: at most one player-catalog request is in flight at any time.
C10_SingleCatalogFetch ==
  Cardinality({t \in Tasks : task[t].pc = "lp_await"}) <= 1

\* C11: a failed catalog fetch makes loadPlayersCache() return normally with
\* the directory as it was (lookups then yield null, not an error); a call
\* that finds the directory empty requests the catalog again; once the
\* directory is filled it stays filled and no later call requests the catalog.
C11_State ==
  \A t \in Tasks :
    (task[t].op = "getPlayerDetails" /\ task[t].pc = "done") =>
      /\ task[t].outcome = "ok"
      /\ task[t].lookup \in {"null", "player"}
      /\ (task[t].lookup = "player" => playersCache # {})

C11_Step ==
  /\ playersCache # {} => playersCache' # {}
  /\ \A t \in Tasks :
       /\ (task[t].pc = "lp_await" /\ task'[t].pc # "lp_await") =>
             /\ task'[t].pc = task[t].lpRet
             /\ task'[t].outcome = ""
             /\ (task'[t].lpFailed => playersCache' = playersCache)
             /\ (~task'[t].lpFailed => playersCache' # {})
       /\ (task[t].pc = "lp" /\ task'[t].pc # "lp") =>
             IF playersCache = {}
             THEN /\ task'[t].pc = "lp_await"
                  /\ task'[t].calls = task[t].calls + 1
                  /\ Endpoints(task'[t]) = {"players"}
             ELSE /\ task'[t].pc = task[t].lpRet
                  /\ task'[t].calls = task[t].calls
                  /\ task'[t].reqs = task[t].reqs
       /\ (task[t].pc = "gpd_map" /\ task'[t].pc = "done" /\ playersCache = {}) =>
             (task'[t].outcome = "ok" /\ task'[t].lookup = "null")

C11_FailedCatalogRetried == []C11_State /\ [][C11_Step]_vars

C11_Witness ==
  \E t, u \in Tasks :
    /\ task[t].op = "getPlayerDetails" /\ task[t].pc = "done"
    /\ task[t].lpFailed /\ task[t].lookup = "null"
    /\ task[u].op = "getPlayerDetails" /\ task[u].pc = "done"
    /\ task[u].calls = 0 /\ task[u].lookup = "player"

\* ------------------------------------------------ resolver and dispatcher
MyOps == {"getMyMatchup", "getMySeasonHistory", "getMyOpponent"}
OneBinding == Len(users) = 1 /\ Len(users[1].leagues) = 1
ErFails == {"er_user", "er_rosters", "er_members"}

\* C12: with one account, one league binding and no hint, findUserAndLeague
\* returns that account and binding with the binding's current roster id,
\* fetches no league name, starts at most one roster resolution of at most
\* three requests per call, and none once the roster id is set.
C12_State ==
  \A t \in Tasks :
    LET r == task[t] IN
    (OneBinding /\ r.op \in MyOps /\ r.hint = <<>>) =>
      /\ r.nameCalls = 0 /\ r.seqs <= 1 /\ r.erCalls <= 3
      /\ (r.hadRoster => r.seqs = 0 /\ r.erCalls = 0)
      /\ (r.pc \notin {"lp", "lp_await", "ful"} => r.selU = 1 /\ r.selL = 1)
      /\ (r.league # "" =>
            /\ r.league = users[1].leagues[1].leagueId
            /\ r.roster = users[1].leagues[1].rosterId)

C12_Step ==
  \A t \in Tasks :
    ( /\ OneBinding
      /\ task[t].pc = "er" /\ task'[t].pc # "er"
      /\ users[1].leagues[1].rosterId # "" )
    => /\ task'[t].pc = task[t].fulRet
       /\ task'[t].calls = task[t].calls
       /\ task'[t].roster = users[1].leagues[1].rosterId
       /\ users' = users

C12_OneBindingResolved == []C12_State /\ [][C12_Step]_vars

C12_Witness ==
  \E t \in Tasks :
    /\ OneBinding /\ users[1].userId = "U2"
    /\ task[t].op = "getMyOpponent" /\ task[t].pc = "mo_cfg"
    /\ task[t].hadRoster /\ task[t].calls = 0 /\ task[t].roster = "7"

\* the hint of a handler matches no account handle / these league names
noHandle(hint) ==
  \A u \in DOMAIN users : ~userMatches(users[u].username, toLowerCase(hint))
Bindings == {<<u, l>> \in (1..2) \X (1..2) :
               u \in DOMAIN users /\ l \in DOMAIN users[u].leagues}
named(hint) ==
  {b \in Bindings :
     LET id == users[b[1]].leagues[b[2]].leagueId IN
     UpName(id) # <<>> /\ nameMatches(UpName(id), toLowerCase(hint))}

\* C13: a hint that matches the display name of a configured league and no
\* account handle resolves to a league of that name under its own account,
\* also when the name fetch of another binding failed.
C13_HintedLeagueReturned ==
  \A t \in Tasks :
    LET r == task[t] IN
    ( /\ r.op \in MyOps /\ r.hint # <<>> /\ r.league # ""
      /\ noHandle(r.hint) /\ named(r.hint) # {}
      /\ \A b \in named(r.hint) :
            users[b[1]].leagues[b[2]].leagueId \notin r.nameFailed )
    => <<r.selU, r.selL>> \in named(r.hint)

\* C14: a non-empty hint that matches no account handle, no league display
\* name and no league identifier resolves to the first account's first
\* league binding, also when a league's name could not be fetched.
C14_NoMatchFallsBack ==
  \A t \in Tasks :
    LET r == task[t] IN
    ( /\ r.op \in MyOps /\ r.hint # <<>> /\ r.league # ""
      /\ noHandle(r.hint) /\ named(r.hint) = {}
      /\ \A b \in Bindings : <<users[b[1]].leagues[b[2]].leagueId>> # r.hint )
    => (r.selU = 1 /\ r.selL = 1)

\* C15: a failed fetch inside ensureRosterId (user lookup, league rosters,
\* league members) is swallowed: the binding's roster id stays unset, and
\* the calling tool returns its 'Could not find roster' result without
\* failing and without any further upstream request.
C15_State ==
  \A t \in Tasks :
    LET r == task[t] IN
    (r.op \in MyOps /\ r.failed \in ErFails) =>
      /\ r.roster = ""
      /\ users[r.selU].leagues[r.selL].rosterId = ""
      /\ r.pc \in {r.fulRet, "done"}
      /\ Endpoints(r) \subseteq {"user", "rosters", "users"}
      /\ (r.pc = "done" => r.outcome = "ok" /\ r.result = "noRoster")
      /\ r.reply \in {"", "result"}

C15_Step ==
  \A t \in Tasks :
    /\ ( /\ task[t].pc \in {"er_user_await", "er_rosters_await", "er_members_await"}
         /\ task'[t].failed \in ErFails )
       => (task'[t].pc = task[t].fulRet /\ users' = users)
    /\ (task[t].failed \in ErFails /\ task'[t].pc # "idle")
       => (task'[t].calls = task[t].calls /\ task'[t].reqs = task[t].reqs)

C15_RosterFailureSwallowed == []C15_State /\ [][C15_Step]_vars

C15_Witness ==
  \E t \in Tasks :
    /\ task[t].op = "getMyMatchup" /\ task[t].pc = "done"
    /\ task[t].failed = "er_members" /\ task[t].result = "noRoster"
    /\ task[t].reply = "result" /\ users[1].userId = "U1"

\* C16: every tool invocation, whatever the tool name and whatever fetch
\* failed, is answered with a content payload, the tool's result or the text
\* 'Error: <message>'; nothing else leaves the request handler.
C16_State ==
  \A t \in Tasks :
    LET r == task[t] IN
    /\ r.reply \in {"", "result", "Error: message"}
    /\ r.reply # "" =>
          /\ r.pc = "done"
          /\ (r.reply = "Error: message") = (r.outcome = "error")
          /\ (r.reply = "result") = (r.outcome = "ok")
    /\ r.pc = "done" => r.outcome \in {"ok", "error"}

C16_Step ==
  \A t \in Tasks :
    /\ (task[t].pc = "done" /\ task'[t].pc = "idle") => task[t].reply # ""
    /\ (task[t].pc = "idle" /\ task'[t].pc = "done") =>
          /\ task'[t].outcome = "error"
          /\ task'[t].failed \in {"config", "unknown"}
          /\ task'[t].calls = 0

C16_AlwaysAPayload == []C16_State /\ [][C16_Step]_vars

C16_Witness ==
  \E t \in Tasks :
    /\ task[t].op = "no_such_tool" /\ task[t].message = "Unknown tool"
    /\ task[t].reply = "Error: message"

\* C17: with no account configured, a placeholder username or a placeholder
\* league id, every tool call ends in the configuration error and issues no
\* upstream request.
placeholders ==
  \/ Len(users) = 0
  \/ users[1].username = PLACEHOLDER_USERNAME
  \/ Len(users[1].leagues) > 0 /\ users[1].leagues[1].leagueId = PLACEHOLDER_LEAGUE

C17_PlaceholdersRejected ==
  \A t \in Tasks :
    (placeholders /\ task[t].pc # "idle") =>
      /\ task[t].failed = "config" /\ task[t].outcome = "error"
      /\ task[t].calls = 0

\* C20: with one account, one league and no hint, a bye upstream makes the
\* my-matchup, my-opponent and preview operations end without an error and
\* with the opponent null, absent or marked as a bye.
C20_ByeIsNotAnError ==
  \A t \in Tasks :
    LET r == task[t] IN
    ( /\ OneBinding /\ upBye /\ r.pc = "done"
      /\ \/ r.result \in {"historical", "noOpponent", "preview"}
         \/ r.failed = "scoring" )
    => /\ r.outcome = "ok"
       /\ r.opponent \in {"null", "absent", "BYE"}

\* ---------------------------------------------------------------------------
\* C18: the projected points a preview reports for a player equal the
\* reference: the sum of stats[c] * weights[c] over the known categories c
\* present in both with a nonzero weight and, when that sum is exactly zero,
\* the pre-aggregated field chosen by the reception weight (1: pts_ppr,
\* 0.5: pts_half_ppr, anything else: pts_std).
Known == {Categories[i] : i \in 1..Len(Categories)}

RECURSIVE sumOver(_, _, _)
sumOver(cs, stats, weights) ==
  IF cs = {} THEN 0
  ELSE LET c == CHOOSE x \in cs : TRUE
       IN stats[c] * weights[c] + sumOver(cs \ {c}, stats, weights)

computePoints(stats, weights) ==
  LET both == {c \in Known \cap DOMAIN stats \cap DOMAIN weights :
                 weights[c] # 0}
      sum == sumOver(both, stats, weights)
      field == IF "rec" \in DOMAIN weights /\ weights["rec"] = 10
               THEN "pts_ppr"
               ELSE IF "rec" \in DOMAIN weights /\ weights["rec"] = 5
               THEN "pts_half_ppr"
               ELSE "pts_std"
  IN IF sum # 0 THEN sum
     ELSE IF field \in DOMAIN stats THEN stats[field] ELSE 0

C18_ProjectedIsReference ==
  \A t \in Tasks :
    LET r == task[t] IN
    (r.op = "previewMatchup" /\ r.pc = "done" /\ r.bulk.rows > 0)
      => /\ r.outcome = "ok"
         /\ r.projected = <<computePoints(upStats, upWeights)>>

\* ---------------------------------------------------------------------------
\* C19 (as stated): analyzeTrade classifies percent = |v1 - v2| / max(v1, v2)
\* * 100 as fair when below 15, a slight edge when from 15 through 30 and a
\* significant edge when above 30, naming the higher-valued side.
Trades ==
  {t \in Tasks : task[t].op = "analyzeTrade" /\ task[t].pc = "done"
                   /\ task[t].outcome = "ok"}
gap(r) == 100 * abs(r.team1Value - r.team2Value)
larger(r) == max(r.team1Value, r.team2Value)
higher(r) == IF r.team1Value > r.team2Value THEN 1 ELSE 2

C19_SlightFromFifteen ==
  \A t \in Trades :
    LET r == task[t] IN
    larger(r) > 0 =>
      /\ (gap(r) < 15 * larger(r))
           => r.recommendation = [verdict |-> "Fair trade", team |-> 0]
      /\ (gap(r) >= 15 * larger(r) /\ gap(r) <= 30 * larger(r))
           => r.recommendation = [verdict |-> "has slight advantage",
                                  team |-> higher(r)]
      /\ (gap(r) > 30 * larger(r))
           => r.recommendation = [verdict |-> "wins significantly",
                                  team |-> higher(r)]

\* C19 (amended): analyzeTrade sums the player values of each side (an id
\* missing from the catalog counts 0), computes percent = |v1 - v2| /
\* max(v1, v2) * 100 and recommends "Fair trade" when the percentage is at
\* most 15 or is NaN (both sides worth 0), a slight advantage of the
\* higher-valued side when it is above 15 and at most 30, and a significant
\* win of the higher-valued side when it is above 30; two sides worth 100
\* and 50 give 50%, a significant win of the 100 side.
C19_SlightAboveFifteen ==
  \A t \in Trades :
    LET r == task[t] IN
    /\ r.team1Value = reduce(r.playersFrom1)
    /\ r.team2Value = reduce(r.playersFrom2)
    /\ r.percentDiff = [num |-> gap(r), den |-> larger(r)]
    /\ (larger(r) = 0 \/ gap(r) <= 15 * larger(r))
         => r.recommendation = [verdict |-> "Fair trade", team |-> 0]
    /\ (gap(r) > 15 * larger(r) /\ gap(r) <= 30 * larger(r))
         => r.recommendation = [verdict |-> "has slight advantage",
                                team |-> higher(r)]
    /\ (gap(r) > 30 * larger(r))
         => r.recommendation = [verdict |-> "wins significantly",
                                team |-> higher(r)]
    /\ (r.team1Value = 100 /\ r.team2Value = 50)
         => /\ r.percentDiff.num = 50 * r.percentDiff.den
            /\ r.recommendation = [verdict |-> "wins significantly",
                                   team |-> 1]

\* a trade whose sides differ by exactly 15% has been evaluated
C19_Witness ==
  \E t \in Trades :
    /\ larger(task[t]) > 0
    /\ gap(task[t]) = 15 * larger(task[t])
    /\ task[t].recommendation.verdict = "Fair trade"

\* ---------------------------------------------------------------------------
\* C21: after an operation that queried the upstream season state has
\* returned its result (the season-state tool, my matchup, my season
\* record, my opponent without a week), the stored current week equals the
\* week of that response.
StateReaders ==
  {t \in Tasks :
     /\ task[t].pc = "done" /\ task[t].outcome = "ok"
     /\ \/ task[t].op = "getNFLState"
        \/ task[t].op = "getMyMatchup"
             /\ task[t].result \in {"historical", "preview"}
        \/ task[t].op = "getMySeasonHistory" /\ task[t].result = "history"}

C21_StateQueryRefreshesWeek ==
  StateReaders # {} => currentWeek = nflWeek

\* ---------------------------------------------------------------------------
\* C22: no cached entry (matchups, rosters, bulk projections) is served more
\* than 5 minutes after that entry itself was fetched, also when data stored
\* for another league or of another kind has refreshed the shared timestamp
\* in between.
served(entry, at) == entry # NoVal => at - entry.at <= CACHE_DURATION

C22_NoEntryServedPastTtl ==
  [][\A t \in Tasks :
       /\ (task[t].pc = "pm_check" /\ task'[t].branch = "hit")
            => /\ served(task'[t].matchups, now)
               /\ served(task'[t].rosters, now)
       /\ (task[t].bulkSrc # "cache" /\ task'[t].bulkSrc = "cache")
            => served(task'[t].bulk, now)]_vars

\* ---------------------------------------------------------------------------
\* C23: once the TTL has elapsed on a populated cache, repeated previews of
\* the active week, with no season-state query in between, eventually store
\* fresh data and make the cache valid again.
Populated ==
  \E l \in Leagues :
    /\ currentWeekCache.matchups[l] # NoVal
    /\ currentWeekCache.rosters[l] # NoVal
    /\ currentWeekCache.bulkProjections[<<currentWeek, l>>] # NoVal

C23_StaleCacheRecovers == (Populated /\ ~isCacheValid) ~> isCacheValid

\* ---------------------------------------------------------------------------
\* C24: once an account's user id, a binding's league name or a binding's
\* roster id holds a non-empty value, no step of any operation replaces it
\* with an empty value, and a roster id once set never changes.
C24_ResolvedValuesKept ==
  [][\A u \in DOMAIN users :
       /\ users[u].userId # "" => users'[u].userId # ""
       /\ \A l \in DOMAIN users[u].leagues :
            LET league == users[u].leagues[l]
                after == users'[u].leagues[l]
            IN /\ league.leagueName # <<>> => after.leagueName # <<>>
               /\ league.rosterId # "" => after.rosterId = league.rosterId]_vars

\* ---------------------------------------------------------------------------
\* C25: overlapping resolutions of one account leave what the same
\* resolutions leave when run one after the other.  Run one after the
\* other, a resolution changes the user id only before or together with
\* the roster id it stores, so once every handler has returned the
\* account's user id owns at least one of the roster ids the account
\* holds; the claim promises the same of overlapping resolutions (and
\* more: that every roster id held belongs to that user id).
Quiet == \A t \in Tasks : task[t].pc = "idle"

ownerOf(leagueId, rosterId) ==
  LET rs == UpRosters(leagueId)
      i == CHOOSE k \in DOMAIN rs : rs[k].roster_id = rosterId
  IN rs[i].owner_id

Held(u) ==
  {l \in DOMAIN users[u].leagues : users[u].leagues[l].rosterId # ""}

C25_FinalUserOwnsARoster ==
  Quiet =>
    \A u \in DOMAIN users :
      Held(u) # {} =>
        \E l \in Held(u) :
          ownerOf(users[u].leagues[l].leagueId,
                  users[u].leagues[l].rosterId) = users[u].userId

\* ---------------------------------------------------------------------------
\* show_my_info alone, on one or two accounts, every answer either way
InfoTasks == {1}
InfoConfigs ==
  { <<User(al, <<"L1", "L2">>)>>,
    <<User(al, <<"L1">>), User(bo, <<"L2">>)>> }

InitInfo ==
  /\ now = Boot
  /\ ticks = 0
  /\ build = "part_001"
  /\ nflWeek = 1
  /\ upRows = 1
  /\ upBye = FALSE
  /\ upStats = PprRow
  /\ upWeights = PprLeague
  /\ lastRequestTime = 0
  /\ currentWeek = 0
  /\ currentWeekCache = EmptyCache
  /\ playersCache = {}
  /\ users \in InfoConfigs
  /\ task = [t \in Tasks |-> Idle]
  /\ lastGap = -1
  /\ lastPreview = NoPrev

NextInfo ==
  \E t \in InfoTasks :
    \/ StartGetMyInfo(t)
    \/ \E ok \in BOOLEAN : GetMyInfoUserResolve(t, ok)
    \/ \E ok \in BOOLEAN : GetMyInfoNameResolve(t, ok)
    \/ GetMyInfoNext(t)
    \/ Sleep(t)
    \/ RateLimitEnter(t)
    \/ RateLimitWake(t)
    \/ EnsureRosterIdEnter(t)
    \/ EnsureUserFetch(t)
    \/ \E ok \in BOOLEAN : EnsureUserResolve(t, ok)
    \/ EnsureRostersFetch(t)
    \/ \E answer \in RosterAnswers : EnsureRostersResolve(t, answer)
    \/ EnsureMembersFetch(t)
    \/ \E answer \in MemberAnswers : EnsureMembersResolve(t, answer)
    \/ Return(t)

SpecInfo == InitInfo /\ [][NextInfo]_vars

\* the step issues, inside a running operation of t, a request to endpoint ep
issues(t, ep) ==
  /\ task[t].op = task'[t].op
  /\ task'[t].calls > task[t].calls
  /\ task'[t].reqs[1].ep = ep

\* C26: within one operation, an upstream request that failed is never
\* issued again: neither /user/<username> of an account nor /league/<id>
\* of a league is requested after that request failed in this operation.
C26_FailedRequestNotRepeated ==
  [][\A t \in Tasks :
       /\ issues(t, "user") =>
             LET u == IF task'[t].pc = "mi_user_await" THEN task'[t].ui
                      ELSE task'[t].selU
             IN users[u].username \notin task[t].userFailed
       /\ issues(t, "league") =>
             users[task'[t].ui].leagues[task'[t].li].leagueId
               \notin task[t].nameFailed]_vars

\* ---------------------------------------------------------------------------
\* Accounts without league: SLEEPER_USERNAME_A alone gives an account with
\* no league binding, in the place its variable has in the environment.
SparseConfigs ==
  { <<User(al, <<>>)>>,
    <<User(al, <<>>), User(bo, <<"L2">>)>>,
    <<User(bo, <<"L2">>), User(al, <<>>)>>,
    <<User(al, <<"L1", "L2">>)>> }

InitAccounts ==
  /\ now = Boot
  /\ ticks = 0
  /\ build = "part_001"
  /\ nflWeek = 1
  /\ upRows = 1
  /\ upBye = FALSE
  /\ upStats = PprRow
  /\ upWeights = PprLeague
  /\ lastRequestTime = 0
  /\ currentWeek = 0
  /\ currentWeekCache = EmptyCache
  /\ playersCache = {}
  /\ users \in SparseConfigs
  /\ task = [t \in Tasks |-> Idle]
  /\ lastGap = -1
  /\ lastPreview = NoPrev

NextAccounts ==
  \E t \in InfoTasks :
    \/ \E hint \in ResolveHints : StartGetMySeasonHistory(t, hint)
    \/ Sleep(t)
    \/ RateLimitEnter(t)
    \/ RateLimitWake(t)
    \/ FindUserAndLeagueEnter(t)
    \/ \E ok \in BOOLEAN : FindLeagueNameResolve(t, ok)
    \/ EnsureRosterIdEnter(t)
    \/ EnsureUserFetch(t)
    \/ \E ok \in BOOLEAN : EnsureUserResolve(t, ok)
    \/ EnsureRostersFetch(t)
    \/ \E answer \in RosterAnswers : EnsureRostersResolve(t, answer)
    \/ EnsureMembersFetch(t)
    \/ \E answer \in MemberAnswers : EnsureMembersResolve(t, answer)
    \/ GetMySeasonHistoryConfig(t)
    \/ GetMySeasonHistoryFanOut(t)
    \/ \E ok \in BOOLEAN : GetMySeasonHistoryFanResolve(t, ok)
    \/ Return(t)

SpecAccounts == InitAccounts /\ [][NextAccounts]_vars

\* C27: findUserAndLeague answers null (the handler then reports that no
\* league is configured) only when no configured account has a league
\* binding.
C27_NullOnlyWithoutBinding ==
  \A t \in Tasks :
    (task[t].op \in MyOps /\ task[t].result = "noConfig")
      => \A u \in DOMAIN users : Len(users[u].leagues) = 0

\* ---------------------------------------------------------------------------
\* C28: a preview that computed projections used the pre-aggregated field
\* exactly when no known category had both a nonzero weight and a nonzero
\* stat value; whenever such a category contributed, the projected points
\* are the weighted sum, also when the contributions cancel to zero.
contributed(stats, weights) ==
  {c \in Known \cap DOMAIN stats \cap DOMAIN weights :
     stats[c] # 0 /\ weights[c] # 0}

preAggregated(stats, weights) ==
  LET field == IF "rec" \in DOMAIN weights /\ weights["rec"] = 10
               THEN "pts_ppr"
               ELSE IF "rec" \in DOMAIN weights /\ weights["rec"] = 5
               THEN "pts_half_ppr"
               ELSE "pts_std"
  IN IF field \in DOMAIN stats THEN stats[field] ELSE 0

C28_FallbackOnlyWithoutContribution ==
  \A t \in Tasks :
    LET r == task[t] IN
    (r.op = "previewMatchup" /\ r.pc = "done" /\ r.outcome = "ok"
       /\ r.bulk.rows > 0)
      => r.projected =
           IF contributed(upStats, upWeights) # {}
           THEN <<sumOver(contributed(upStats, upWeights), upStats, upWeights)>>
           ELSE <<preAggregated(upStats, upWeights)>>

\* ---------------------------------------------------------------------------
\* suggest_waiver_pickups alone: two leagues, a roster of either, with and
\* without position, limits around the default test
WaiverLimits == {0, 1, 2}
WaiverRosters == {"7", "3"}
WaiverPositions == {"", "K"}

NextWaiver ==
  \E t \in InfoTasks :
    \/ \E leagueId \in SharedLeagues, rosterId \in WaiverRosters,
          pos \in WaiverPositions, limit \in WaiverLimits :
         StartGetWaiverRecommendations(t, leagueId, rosterId, pos, limit)
    \/ LoadPlayersCacheEnter(t)
    \/ \E ok \in BOOLEAN : LoadPlayersCacheResolve(t, ok)
    \/ GetWaiverRecommendationsFanOut(t)
    \/ \E ok \in BOOLEAN : GetWaiverRecommendationsFanResolve(t, ok)
    \/ Sleep(t)
    \/ RateLimitEnter(t)
    \/ RateLimitWake(t)
    \/ GetWaiverRecommendationsLookup(t)
    \/ \E ok \in BOOLEAN : GetWaiverRecommendationsLookupResolve(t, ok)
    \/ Return(t)

SpecWaiver == InitResolve /\ [][NextWaiver]_vars

\* min(50, 3 x limit)
cap(limit) == IF 3 * limit < 50 THEN 3 * limit ELSE 50

\* the reference ranking: the free players by initial score
ranking(r) ==
  sortDesc(availablePlayers(r.league, r.position,
                            rosterNeeds(UpRosterPlayers(r.league, r.roster),
                                        UpRosterPositions(r.league))),
           "initial_score")

Waivers == {t \in Tasks : task[t].op = "getWaiverRecommendations"}

\* C29: suggest_waiver_pickups issues at most min(50, 3 x limit) projection
\* lookups, each for a candidate among the first min(50, 3 x limit) by
\* initial score and each after a rateLimit(); a failed lookup leaves the
\* projection 0; at most limit recommendations are returned.
C29_State ==
  \A t \in Waivers :
    LET r == task[t] IN
    /\ Len(r.asked) <= cap(r.limit)
    /\ \A k \in DOMAIN r.asked :
          \E j \in 1..cap(r.limit) :
            j <= Len(ranking(r)) /\ ranking(r)[j].player_id = r.asked[k]
    /\ \A k \in DOMAIN r.topCandidates :
          r.topCandidates[k].failed => r.topCandidates[k].avg_projection = 0
    /\ Len(r.recommendations) <= r.limit

C29_Step ==
  \A t \in Tasks :
    (task[t].pc = "wr_proj" /\ task'[t].pc = "wr_proj_await")
      => task'[t].reqs[1].paced

C29_LookupsBounded == []C29_State /\ [][C29_Step]_vars

\* ---------------------------------------------------------------------------
\* C30: in every reachable state a league is a key of the cached matchups
\* map if and only if it is a key of the cached rosters map.
C30_MatchupsAndRostersTogether ==
  \A l \in Leagues :
    (currentWeekCache.matchups[l] # NoVal)
      <=> (currentWeekCache.rosters[l] # NoVal)

\* a preview is served from the cache, with both entries of its league,
\* while the maps hold one league and not the other
C30_Witness ==
  \E t \in Tasks :
    /\ task[t].op = "previewMatchup" /\ task[t].branch = "hit"
    /\ task[t].matchups # NoVal /\ task[t].rosters # NoVal
    /\ \E l \in Leagues : currentWeekCache.matchups[l] = NoVal
    /\ \E l \in Leagues : currentWeekCache.rosters[l] # NoVal

====
